---- MODULE Spec2Model ----
(***************************************************************************)
(* A model of the MOLB line-balancing engine: the ProblemConfig data       *)
(* model and its mutators (models.js), the precedence analyzer             *)
(* (precedence.js), the feasibility checker (feasibility.js) and the       *)
(* heuristic generator (heuristics.js).                                    *)
(*                                                                         *)
(* A JavaScript Map is a function whose DOMAIN is the set of keys; a Map   *)
(* whose iteration order the code depends on (config.tasks) is a sequence  *)
(* of its values in insertion order.  Arrays are sequences.                *)
(***************************************************************************)
EXTENDS Integers, Sequences, FiniteSets, TLC

VARIABLES config, removed, nops, lastOp, gen, run, sol, ret

vars == <<config, removed, nops, lastOp, gen, run, sol, ret>>

-----------------------------------------------------------------------------
(* Bounds and input sets *)

\* The task ids the callers use.
TaskIds == {"T1", "T2", "T3"}

\* The tool types the callers use.
ToolTypes == {"M1", "M2"}

\* The processing times the callers use.
Times == {10, 20}

\* The tool limits a caller sets with setToolLimit.
Limits == {0, 1}

\* The takt times a caller assigns.
TaktTimes == {15}

\* The number of mutator calls on one ProblemConfig.
MaxOps == 5

\* The number of precedence edges of a ProblemConfig handed to the checker
\* or to a generator.
MaxEdges == 2

\* The number of stations of a Solution handed to the checker.
MaxStations == 3

\* The number of task occurrences of a Solution handed to the checker.
MaxPlaced == 3

\* The number of checkFeasibility and validateSolution calls on one Solution.
MaxChecks == 2

-----------------------------------------------------------------------------
(* Map and array helpers *)

EmptyMap == <<>>

MapHas(m, k) == k \in DOMAIN m

MapSet(m, k, v) == [y \in (DOMAIN m) \cup {k} |-> IF y = k THEN v ELSE m[y]]

MapDelete(m, k) == [y \in (DOMAIN m) \ {k} |-> m[y]]

\* m.get(k) || []
GetList(m, k) == IF k \in DOMAIN m THEN m[k] ELSE <<>>

\* array.includes(x)
Includes(s, x) == \E i \in 1..Len(s) : s[i] = x

\* array.filter(y => y !== x)
Without(s, x) == SelectSeq(s, LAMBDA y : y # x)

Range(s) == {s[i] : i \in 1..Len(s)}

RECURSIVE SumTimes(_)

\* tasks.reduce((s, t) => s + t.processingTime, 0)
SumTimes(tasks) ==
    IF Len(tasks) = 0 THEN 0 ELSE Head(tasks).processingTime + SumTimes(Tail(tasks))

-----------------------------------------------------------------------------
(* Numbers.  The scores are fractions and square roots of fractions: a     *)
(* number is kept exactly, as q - c * sqrt(r) with fractions q, c and r.   *)
(* The rounding of floating point arithmetic is left out.                  *)

Abs(x) == IF x < 0 THEN 0 - x ELSE x

RECURSIVE GCD(_, _)

GCD(a, b) == IF b = 0 THEN a ELSE GCD(b, a % b)

\* the fraction n / d in lowest terms, d # 0
Rat(n, d) ==
    LET g == GCD(Abs(n), Abs(d))
        sg == IF d < 0 THEN 0 - 1 ELSE 1
    IN [n |-> (sg * n) \div g, d |-> (sg * d) \div g]

RAdd(a, b) == Rat(a.n * b.d + b.n * a.d, a.d * b.d)

RSub(a, b) == Rat(a.n * b.d - b.n * a.d, a.d * b.d)

RMul(a, b) == Rat(a.n * b.n, a.d * b.d)

\* a / b for b # 0
RDiv(a, b) == Rat(a.n * b.d, a.d * b.n)

RLess(a, b) == a.n * b.d < b.n * a.d

RSign(a) == IF a.n > 0 THEN 1 ELSE IF a.n < 0 THEN 0 - 1 ELSE 0

RECURSIVE isqrtFrom(_, _)

\* the greatest s' >= s with s' * s' <= n
isqrtFrom(n, s) == IF (s + 1) * (s + 1) > n THEN s ELSE isqrtFrom(n, s + 1)

\* Math.floor(Math.sqrt(n))
ISqrt(n) == isqrtFrom(n, 0)

\* the fraction r >= 0 is the square of a fraction
RIsSquare(r) == ISqrt(r.n) * ISqrt(r.n) = r.n /\ ISqrt(r.d) * ISqrt(r.d) = r.d

\* Math.sqrt(r) for such a fraction
RSqrt(r) == Rat(ISqrt(r.n), ISqrt(r.d))

\* the number q - c * sqrt(r), r >= 0; the square root is taken when it is a
\* fraction
Surd(q, c, r) ==
    IF c.n = 0 \/ r.n = 0 THEN [q |-> q, c |-> Rat(0, 1), r |-> Rat(0, 1)]
    ELSE IF RIsSquare(r)
         THEN [q |-> RSub(q, RMul(c, RSqrt(r))), c |-> Rat(0, 1), r |-> Rat(0, 1)]
         ELSE [q |-> q, c |-> c, r |-> r]

\* the number n / d
Number(n, d) == Surd(Rat(n, d), Rat(0, 1), Rat(0, 1))

\* the sign of q - c * sqrt(r)
SignOf(q, c, r) ==
    LET sq == RSign(q)
        sc == RSign(c) * RSign(r)
        cmp == RSign(RSub(RMul(q, q), RMul(RMul(c, c), r)))
    IN IF sc = 0 THEN sq
       ELSE IF sq = 0 THEN 0 - sc
            ELSE IF sq # sc THEN sq
                 ELSE sq * cmp

Sign(x) == SignOf(x.q, x.c, x.r)

\* the sign of a - b * sqrt(r1) - c * sqrt(r2)
SignOfTwo(a, b, r1, c, r2) ==
    LET sb == RSign(b) * RSign(r1)
        sc == RSign(c) * RSign(r2)
        \* the sign of P = b * sqrt(r1) + c * sqrt(r2)
        sP == IF sb = sc \/ sc = 0 THEN sb
              ELSE IF sb = 0 THEN sc
                   ELSE sb * RSign(RSub(RMul(RMul(b, b), r1), RMul(RMul(c, c), r2)))
        sa == RSign(a)
        \* the sign of a * a - P * P
        sD == SignOf(RSub(RMul(a, a), RAdd(RMul(RMul(b, b), r1), RMul(RMul(c, c), r2))),
                     RMul(Rat(2, 1), RMul(b, c)), RMul(r1, r2))
    IN IF sP = 0 THEN sa
       ELSE IF sa = 0 THEN 0 - sP
            ELSE IF sa # sP THEN sa
                 ELSE sa * sD

\* x < y
Less(x, y) ==
    IF x.c.n = 0 \/ y.c.n = 0 \/ x.r = y.r
    THEN SignOf(RSub(y.q, x.q), RSub(y.c, x.c), IF x.c.n = 0 THEN y.r ELSE x.r) > 0
    ELSE SignOfTwo(RSub(y.q, x.q), y.c, y.r, RSub(Rat(0, 1), x.c), x.r) > 0

\* x * k for a fraction k
Scale(x, k) == Surd(RMul(x.q, k), RMul(x.c, k), x.r)

\* x + y, where at most one square root occurs in x and y
Plus(x, y) ==
    Surd(RAdd(x.q, y.q), RAdd(x.c, y.c), IF x.c.n = 0 THEN y.r ELSE x.r)

-----------------------------------------------------------------------------
(* Task and ProblemConfig (models.js) *)

DefaultEnvScore == 1

DefaultTaktTime == 12

DefaultToolLimit == 2

\* the weights of a new ProblemConfig: 0.4, 0.3, 0.3
DefaultWeights ==
    [economic |-> Rat(2, 5), social |-> Rat(3, 10), environmental |-> Rat(3, 10)]

Task(id, processingTime, toolType) ==
    [id |-> id, processingTime |-> processingTime, toolType |-> toolType,
     envScore |-> DefaultEnvScore]

NewProblemConfig ==
    [tasks |-> <<>>, precedence |-> EmptyMap, successors |-> EmptyMap,
     taktTime |-> DefaultTaktTime, toolLimits |-> EmptyMap,
     weights |-> DefaultWeights]

\* config.tasks.keys(), in insertion order
TaskKeys(c) == [i \in 1..Len(c.tasks) |-> c.tasks[i].id]

\* config.tasks.has(id)
HasTask(c, id) == \E i \in 1..Len(c.tasks) : c.tasks[i].id = id

\* config.tasks.get(id), for an id the map has
GetTask(c, id) == c.tasks[CHOOSE i \in 1..Len(c.tasks) : c.tasks[i].id = id]

\* config.tasks.set(task.id, task): a key the map has keeps its position
TasksSet(ts, task) ==
    IF \E i \in 1..Len(ts) : ts[i].id = task.id
    THEN [i \in 1..Len(ts) |-> IF ts[i].id = task.id THEN task ELSE ts[i]]
    ELSE Append(ts, task)

addTask(c, task) ==
    [c EXCEPT
       !.tasks = TasksSet(c.tasks, task),
       !.precedence = IF MapHas(c.precedence, task.id) THEN c.precedence
                      ELSE MapSet(c.precedence, task.id, <<>>),
       !.successors = IF MapHas(c.successors, task.id) THEN c.successors
                      ELSE MapSet(c.successors, task.id, <<>>),
       !.toolLimits = IF MapHas(c.toolLimits, task.toolType) THEN c.toolLimits
                      ELSE MapSet(c.toolLimits, task.toolType, DefaultToolLimit)]

\* A removeTask that forgets the successor lists of the other tasks.
removeTaskKeepSuccessors(c, taskId) ==
    [c EXCEPT
       !.tasks = SelectSeq(c.tasks, LAMBDA t : t.id # taskId),
       !.precedence = [k \in (DOMAIN c.precedence) \ {taskId} |->
                          Without(c.precedence[k], taskId)],
       !.successors = MapDelete(c.successors, taskId)]

removeTask(c, taskId) ==
    [c EXCEPT
       !.tasks = SelectSeq(c.tasks, LAMBDA t : t.id # taskId),
       !.precedence = [k \in (DOMAIN c.precedence) \ {taskId} |->
                          Without(c.precedence[k], taskId)],
       !.successors = [k \in (DOMAIN c.successors) \ {taskId} |->
                          Without(c.successors[k], taskId)]]

addPrecedence(c, fromId, toId) ==
    LET p0 == IF MapHas(c.precedence, toId) THEN c.precedence
              ELSE MapSet(c.precedence, toId, <<>>)
        s0 == IF MapHas(c.successors, fromId) THEN c.successors
              ELSE MapSet(c.successors, fromId, <<>>)
    IN [c EXCEPT
          !.precedence = IF Includes(p0[toId], fromId) THEN p0
                         ELSE MapSet(p0, toId, Append(p0[toId], fromId)),
          !.successors = IF Includes(s0[fromId], toId) THEN s0
                         ELSE MapSet(s0, fromId, Append(s0[fromId], toId))]

removePrecedence(c, fromId, toId) ==
    [c EXCEPT
       !.precedence = IF MapHas(c.precedence, toId)
                      THEN MapSet(c.precedence, toId, Without(c.precedence[toId], fromId))
                      ELSE c.precedence,
       !.successors = IF MapHas(c.successors, fromId)
                      THEN MapSet(c.successors, fromId, Without(c.successors[fromId], toId))
                      ELSE c.successors]

setToolLimit(c, toolType, limit) ==
    [c EXCEPT !.toolLimits = MapSet(c.toolLimits, toolType, limit)]

\* config.taktTime = value (main.js findParetoSolutions, ProblemConfig.fromJSON)
setTaktTime(c, value) == [c EXCEPT !.taktTime = value]

-----------------------------------------------------------------------------
(* Precedence analyzer (precedence.js): the queries of the generators *)

\* getAvailableTasks: the unassigned tasks whose predecessors are all
\* assigned, in the order of config.tasks
getAvailableTasks(c, assignedTasks) ==
    SelectSeq(c.tasks,
        LAMBDA t : /\ t.id \notin assignedTasks
                   /\ \A i \in 1..Len(GetList(c.precedence, t.id)) :
                         GetList(c.precedence, t.id)[i] \in assignedTasks)

RECURSIVE getPositionalWeight(_, _, _), sumSuccessorWeights(_, _, _, _)

\* getPositionalWeight(config, taskId, memo): the memo only saves work, it
\* is written after the recursive calls return.  inProgress holds the ids of
\* the calls in progress: a call for one of them recurses without end and the
\* engine throws a RangeError (ok = FALSE).
getPositionalWeight(c, taskId, inProgress) ==
    IF ~HasTask(c, taskId) THEN [ok |-> TRUE, weight |-> 0]
    ELSE IF taskId \in inProgress THEN [ok |-> FALSE, weight |-> 0]
         ELSE LET r == sumSuccessorWeights(c, GetList(c.successors, taskId), 1,
                                           inProgress \cup {taskId})
              IN [ok |-> r.ok, weight |-> GetTask(c, taskId).processingTime + r.weight]

\* the for loop of getPositionalWeight over the successors, from index i
sumSuccessorWeights(c, succs, i, inProgress) ==
    IF i > Len(succs) THEN [ok |-> TRUE, weight |-> 0]
    ELSE LET w == getPositionalWeight(c, succs[i], inProgress)
             r == sumSuccessorWeights(c, succs, i + 1, inProgress)
         IN IF ~w.ok THEN w ELSE [ok |-> r.ok, weight |-> w.weight + r.weight]

\* Math.ceil(a / b) for a >= 0, b > 0
CeilDiv(a, b) == (a + b - 1) \div b

\* calculateSlack
calculateSlack(c, taskId) ==
    LET w == getPositionalWeight(c, taskId, {})
    IN [ok |-> w.ok,
        slack |-> IF w.ok THEN CeilDiv(w.weight, c.taktTime) * c.taktTime - w.weight ELSE 0]

-----------------------------------------------------------------------------
(* Station and Solution (models.js) *)

\* new Station(id); the id "S<n>" is the number n
NewStation(id) == [id |-> id, tasks |-> <<>>, totalTime |-> 0, tools |-> EmptyMap]

\* A Station.addTask that forgets the tool count.
StationAddTaskNoTools(st, task) ==
    [st EXCEPT !.tasks = Append(st.tasks, task),
               !.totalTime = st.totalTime + task.processingTime]

\* Station.addTask
StationAddTask(st, task) ==
    [st EXCEPT
       !.tasks = Append(st.tasks, task),
       !.totalTime = st.totalTime + task.processingTime,
       !.tools = MapSet(st.tools, task.toolType,
                        (IF MapHas(st.tools, task.toolType)
                         THEN st.tools[task.toolType] ELSE 0) + 1)]

\* Station.getTaskIds
getTaskIds(st) == [i \in 1..Len(st.tasks) |-> st.tasks[i].id]

ZeroScores ==
    [economic |-> Number(0, 1), social |-> Number(0, 1),
     environmental |-> Number(0, 1), weighted |-> Number(0, 1)]

\* new Solution(stations)
NewSolution(stations) ==
    [stations |-> stations, scores |-> ZeroScores, isValid |-> TRUE,
     validationErrors |-> <<>>]

\* Solution.addStation
addStation(solution, st) == [solution EXCEPT !.stations = Append(solution.stations, st)]

-----------------------------------------------------------------------------
(* Precedence analyzer (precedence.js) *)

RECURSIVE dfs(_, _, _, _), dfsSuccessors(_, _, _, _, _)

\* A dfs loop that reports a cycle at every successor it has visited before,
\* on the recursion stack or not.
dfsSuccessorsVisitedOnly(c, succs, i, visited, recStack) ==
    IF i > Len(succs) THEN [found |-> FALSE, visited |-> visited]
    ELSE IF succs[i] \notin visited
         THEN LET r == dfs(c, succs[i], visited, recStack)
              IN IF r.found THEN r
                 ELSE dfsSuccessors(c, succs, i + 1, r.visited, recStack)
         ELSE [found |-> TRUE, visited |-> visited]

\* dfs(taskId) of hasCycles: visited is the shared set, recStack the ids of the
\* calls in progress.  Returns whether a back edge was found and the visited set.
dfs(c, taskId, visited, recStack) ==
    dfsSuccessors(c, GetList(c.successors, taskId), 1,
                  visited \cup {taskId}, recStack \cup {taskId})

\* the for loop over successors inside dfs, from index i
dfsSuccessors(c, succs, i, visited, recStack) ==
    IF i > Len(succs) THEN [found |-> FALSE, visited |-> visited]
    ELSE IF succs[i] \notin visited
         THEN LET r == dfs(c, succs[i], visited, recStack)
              IN IF r.found THEN r
                 ELSE dfsSuccessors(c, succs, i + 1, r.visited, recStack)
         ELSE IF succs[i] \in recStack
              THEN [found |-> TRUE, visited |-> visited]
              ELSE dfsSuccessors(c, succs, i + 1, visited, recStack)

RECURSIVE hasCyclesFrom(_, _, _, _)

\* the loop of hasCycles over config.tasks.keys(), from index i
hasCyclesFrom(c, keys, i, visited) ==
    IF i > Len(keys) THEN FALSE
    ELSE IF keys[i] \in visited THEN hasCyclesFrom(c, keys, i + 1, visited)
         ELSE LET r == dfs(c, keys[i], visited, {})
              IN IF r.found THEN TRUE
                 ELSE hasCyclesFrom(c, keys, i + 1, r.visited)

hasCycles(c) == hasCyclesFrom(c, TaskKeys(c), 1, {})

\* An in-degree of topologicalSort: a number, or the NaN that undefined - 1 gives.
Num(n) == [nan |-> FALSE, n |-> n]

NaN == [nan |-> TRUE, n |-> 0]

\* inDegree.set(succ, inDegree.get(succ) - 1)
Decrement(inDegree, succ) ==
    IF succ \in DOMAIN inDegree /\ ~inDegree[succ].nan
    THEN MapSet(inDegree, succ, Num(inDegree[succ].n - 1))
    ELSE MapSet(inDegree, succ, NaN)

RECURSIVE kahnSuccessors(_, _, _, _)

\* A successor loop that queues a successor at every decrement, zero or not.
kahnSuccessorsNoZeroTest(succs, i, inDegree, queue) ==
    IF i > Len(succs) THEN [inDegree |-> inDegree, queue |-> queue]
    ELSE kahnSuccessors(succs, i + 1, Decrement(inDegree, succs[i]),
                        Append(queue, succs[i]))

\* the for loop over the successors of the dequeued task, from index i:
\* the in-degrees and the queue after it
kahnSuccessors(succs, i, inDegree, queue) ==
    IF i > Len(succs) THEN [inDegree |-> inDegree, queue |-> queue]
    ELSE LET d == Decrement(inDegree, succs[i])
         IN kahnSuccessors(succs, i + 1, d,
                IF ~d[succs[i]].nan /\ d[succs[i]].n = 0
                THEN Append(queue, succs[i]) ELSE queue)

RECURSIVE kahn(_, _, _, _)

\* the while loop of topologicalSort
kahn(c, inDegree, queue, result) ==
    IF Len(queue) = 0 THEN result
    ELSE LET current == Head(queue)
             r == kahnSuccessors(GetList(c.successors, current), 1, inDegree, Tail(queue))
         IN kahn(c, r.inDegree, r.queue, Append(result, current))

\* topologicalSort: ok = FALSE is the null result; order lists the ids of the
\* returned tasks.
topologicalSort(c) ==
    IF hasCycles(c) THEN [ok |-> FALSE, order |-> <<>>]
    ELSE LET keys == TaskKeys(c)
             inDegree == [id \in Range(keys) |-> Num(Len(GetList(c.precedence, id)))]
             queue == SelectSeq(keys, LAMBDA id : inDegree[id].n = 0)
             result == kahn(c, inDegree, queue, <<>>)
         IN IF Len(result) = Len(c.tasks) THEN [ok |-> TRUE, order |-> result]
            ELSE [ok |-> FALSE, order |-> <<>>]

-----------------------------------------------------------------------------
(* Feasibility checker (feasibility.js) *)

\* the order in which the code walks the keys of an id-keyed Map whose
\* insertion order the model does not keep
IdOrder == <<"T1", "T2", "T3">>

KeysInOrder(m) == SelectSeq(IdOrder, LAMBDA k : k \in DOMAIN m)

\* the concatenation of a sequence of sequences
RECURSIVE Flatten(_)

Flatten(ss) == IF Len(ss) = 0 THEN <<>> ELSE Head(ss) \o Flatten(Tail(ss))

\* the ids of all task occurrences of a solution, station by station
AssignedSequence(solution) ==
    Flatten([s \in 1..Len(solution.stations) |-> getTaskIds(solution.stations[s])])

\* Check 1a: one error for every occurrence of a task after its first
DuplicateErrors(solution) ==
    LET occ == AssignedSequence(solution)
    IN [i \in 1..Len(SelectSeq([k \in 1..Len(occ) |-> k],
                       LAMBDA k : \E j \in 1..(k - 1) : occ[j] = occ[k])) |->
          [kind |-> "duplicate",
           task |-> occ[SelectSeq([k \in 1..Len(occ) |-> k],
                          LAMBDA k : \E j \in 1..(k - 1) : occ[j] = occ[k])[i]]]]

\* Check 1b: one error for every config task that no station holds
UnassignedErrors(solution, c) ==
    LET assigned == Range(AssignedSequence(solution))
        missing == SelectSeq(TaskKeys(c), LAMBDA id : id \notin assigned)
    IN [i \in 1..Len(missing) |-> [kind |-> "unassigned", task |-> missing[i]]]

\* A takt check that also rejects a station whose totalTime equals the takt time.
TaktErrorsOffByOne(solution, c) ==
    LET over == SelectSeq(solution.stations, LAMBDA st : st.totalTime >= c.taktTime)
    IN [i \in 1..Len(over) |-> [kind |-> "takt", station |-> over[i].id]]

\* Check 2: one error for every station whose totalTime exceeds the takt time
TaktErrors(solution, c) ==
    LET over == SelectSeq(solution.stations, LAMBDA st : st.totalTime > c.taktTime)
    IN [i \in 1..Len(over) |-> [kind |-> "takt", station |-> over[i].id]]

\* the keys of station.tools in insertion order: Station.addTask inserts a
\* tool at the first task that uses it
ToolOrder(st) ==
    LET tl == [i \in 1..Len(st.tasks) |-> st.tasks[i].toolType]
        firsts == SelectSeq([k \in 1..Len(tl) |-> k],
                            LAMBDA k : /\ tl[k] \in DOMAIN st.tools
                                       /\ \A j \in 1..(k - 1) : tl[j] # tl[k])
    IN [i \in 1..Len(firsts) |-> tl[firsts[i]]]

\* A tool check that compares with >= where the code compares with >.
StationToolErrorsAtLimit(st, c) ==
    LET over == SelectSeq(ToolOrder(st),
                    LAMBDA tool : /\ MapHas(c.toolLimits, tool)
                                  /\ st.tools[tool] >= c.toolLimits[tool])
    IN [i \in 1..Len(over) |-> [kind |-> "tool", station |-> st.id, tool |-> over[i]]]

\* Check 3, for one station: one error for every tool whose count exceeds
\* its configured limit
StationToolErrors(st, c) ==
    LET over == SelectSeq(ToolOrder(st),
                    LAMBDA tool : /\ MapHas(c.toolLimits, tool)
                                  /\ st.tools[tool] > c.toolLimits[tool])
    IN [i \in 1..Len(over) |-> [kind |-> "tool", station |-> st.id, tool |-> over[i]]]

ToolErrors(solution, c) ==
    Flatten([s \in 1..Len(solution.stations) |-> StationToolErrors(solution.stations[s], c)])

\* taskToStation.get(id): the index of the last station that holds id, 0 for
\* undefined
taskToStation(solution, id) ==
    LET holders == {s \in 1..Len(solution.stations) :
                       Includes(getTaskIds(solution.stations[s]), id)}
    IN IF holders = {} THEN 0 ELSE CHOOSE s \in holders : \A t \in holders : t <= s

\* station.tasks.findIndex(t => t.id === id), for a station that holds id
findIndex(st, id) ==
    CHOOSE i \in 1..Len(st.tasks) :
        st.tasks[i].id = id /\ \A j \in 1..(i - 1) : st.tasks[j].id # id

\* A precedence check that skips the order inside a station.
PairErrorsNoOrder(solution, predId, taskId) ==
    LET taskStation == taskToStation(solution, taskId)
        predStation == taskToStation(solution, predId)
    IN IF predStation = 0
       THEN <<[kind |-> "precedenceUnassigned", pred |-> predId, task |-> taskId]>>
       ELSE IF predStation > taskStation
            THEN <<[kind |-> "precedenceStation", pred |-> predId, task |-> taskId]>>
            ELSE <<>>

\* Check 4, for one (predecessor, task) pair whose task is assigned
PairErrors(solution, predId, taskId) ==
    LET taskStation == taskToStation(solution, taskId)
        predStation == taskToStation(solution, predId)
    IN IF predStation = 0
       THEN <<[kind |-> "precedenceUnassigned", pred |-> predId, task |-> taskId]>>
       ELSE IF predStation > taskStation
            THEN <<[kind |-> "precedenceStation", pred |-> predId, task |-> taskId]>>
            ELSE IF /\ predStation = taskStation
                    /\ findIndex(solution.stations[taskStation], predId)
                         > findIndex(solution.stations[taskStation], taskId)
                 THEN <<[kind |-> "precedenceOrder", pred |-> predId, task |-> taskId]>>
                 ELSE <<>>

\* Check 4: the entries of config.precedence whose task is assigned
PrecedenceErrors(solution, c) ==
    LET keys == SelectSeq(KeysInOrder(c.precedence),
                          LAMBDA id : taskToStation(solution, id) # 0)
    IN Flatten([k \in 1..Len(keys) |->
          Flatten([p \in 1..Len(c.precedence[keys[k]]) |->
                     PairErrors(solution, c.precedence[keys[k]][p], keys[k])])])

\* A checkFeasibility that returns at the first failing check.
checkFeasibilityShortCircuit(solution, c) ==
    LET passes == <<DuplicateErrors(solution) \o UnassignedErrors(solution, c),
                    TaktErrors(solution, c), ToolErrors(solution, c),
                    PrecedenceErrors(solution, c)>>
        failing == {i \in 1..4 : Len(passes[i]) > 0}
    IN IF failing = {} THEN [isValid |-> TRUE, errors |-> <<>>]
       ELSE [isValid |-> FALSE,
             errors |-> passes[CHOOSE i \in failing : \A j \in failing : i <= j]]

checkFeasibility(solution, c) ==
    LET errors == DuplicateErrors(solution) \o UnassignedErrors(solution, c)
                  \o TaktErrors(solution, c) \o ToolErrors(solution, c)
                  \o PrecedenceErrors(solution, c)
    IN [isValid |-> Len(errors) = 0, errors |-> errors]

\* A canAddReason without the takt time test.
canAddReasonIgnoringTakt(task, st, c, assignedTasks) ==
    IF /\ MapHas(c.toolLimits, task.toolType)
       /\ (IF MapHas(st.tools, task.toolType) THEN st.tools[task.toolType] ELSE 0) + 1
            > c.toolLimits[task.toolType]
    THEN "tool"
    ELSE IF \E i \in 1..Len(GetList(c.precedence, task.id)) :
               GetList(c.precedence, task.id)[i] \notin assignedTasks
         THEN "precedence"
         ELSE ""

\* A canAddReason whose takt test leaves out the time of the new task.
canAddReasonStationTimeOnly(task, st, c, assignedTasks) ==
    IF st.totalTime > c.taktTime THEN "takt"
    ELSE IF /\ MapHas(c.toolLimits, task.toolType)
            /\ (IF MapHas(st.tools, task.toolType) THEN st.tools[task.toolType] ELSE 0) + 1
                 > c.toolLimits[task.toolType]
         THEN "tool"
         ELSE IF \E i \in 1..Len(GetList(c.precedence, task.id)) :
                    GetList(c.precedence, task.id)[i] \notin assignedTasks
              THEN "precedence"
              ELSE ""

\* the first failing reason of canAddTaskToStation, "" when the task can be added
canAddReason(task, st, c, assignedTasks) ==
    IF st.totalTime + task.processingTime > c.taktTime THEN "takt"
    ELSE IF /\ MapHas(c.toolLimits, task.toolType)
            /\ (IF MapHas(st.tools, task.toolType) THEN st.tools[task.toolType] ELSE 0) + 1
                 > c.toolLimits[task.toolType]
         THEN "tool"
         ELSE IF \E i \in 1..Len(GetList(c.precedence, task.id)) :
                    GetList(c.precedence, task.id)[i] \notin assignedTasks
              THEN "precedence"
              ELSE ""

canAddTaskToStation(task, st, c, assignedTasks) ==
    canAddReason(task, st, c, assignedTasks) = ""

\* A validateSolution that also tidies the stations it checked.
validateSolutionDroppingEmpty(solution, c) ==
    LET result == checkFeasibility(solution, c)
    IN [solution EXCEPT !.isValid = result.isValid,
                        !.validationErrors = result.errors,
                        !.stations = SelectSeq(solution.stations,
                                               LAMBDA st : Len(st.tasks) > 0)]

validateSolution(solution, c) ==
    LET result == checkFeasibility(solution, c)
    IN [solution EXCEPT !.isValid = result.isValid,
                        !.validationErrors = result.errors]

-----------------------------------------------------------------------------
(* Heuristic generator (heuristics.js) *)

HeuristicType == {"lpt", "slack", "random", "weight", "hybrid"}

RECURSIVE insertByKey(_, _, _, _)

\* the place of task in a list sorted by ascending key: behind every task
\* whose key is not greater (Array.prototype.sort is stable)
insertByKey(sorted, i, task, key) ==
    IF i > Len(sorted) THEN Append(sorted, task)
    ELSE IF key[sorted[i].id] > key[task.id]
         THEN SubSeq(sorted, 1, i - 1) \o <<task>> \o SubSeq(sorted, i, Len(sorted))
         ELSE insertByKey(sorted, i + 1, task, key)

RECURSIVE sortByKey(_, _)

\* [...tasks].sort((a, b) => key[a] - key[b])
sortByKey(tasks, key) ==
    IF Len(tasks) = 0 THEN <<>>
    ELSE insertByKey(sortByKey(SubSeq(tasks, 1, Len(tasks) - 1), key), 1,
                     tasks[Len(tasks)], key)

\* A sortByLPT that sorts by ascending processing time.
sortBySPT(tasks) ==
    sortByKey(tasks, [id \in {tasks[i].id : i \in 1..Len(tasks)} |->
                        (CHOOSE t \in Range(tasks) : t.id = id).processingTime])

\* sortByLPT: descending processing time
sortByLPT(tasks) ==
    sortByKey(tasks, [id \in {tasks[i].id : i \in 1..Len(tasks)} |->
                        0 - (CHOOSE t \in Range(tasks) : t.id = id).processingTime])

\* sortBySlack: ascending slack
sortBySlack(tasks, c) ==
    sortByKey(tasks, [id \in {tasks[i].id : i \in 1..Len(tasks)} |->
                        calculateSlack(c, id).slack])

\* sortByWeight: descending positional weight
sortByWeight(tasks, c) ==
    sortByKey(tasks, [id \in {tasks[i].id : i \in 1..Len(tasks)} |->
                        0 - getPositionalWeight(c, id, {}).weight])

\* the permutations of a list
ListPermutations(tasks) ==
    {[i \in 1..Len(tasks) |-> tasks[f[i]]] :
        f \in {g \in [1..Len(tasks) -> 1..Len(tasks)] :
                  \A i \in 1..Len(tasks), j \in 1..Len(tasks) : g[i] = g[j] => i = j}}

\* Math.abs(wA - wB) < 0.1 * Math.max(wA, wB), in tenths
WithinTenPercent(wA, wB) ==
    10 * (IF wA > wB THEN wA - wB ELSE wB - wA) < (IF wA > wB THEN wA ELSE wB)

\* some call of getPositionalWeight for one of the tasks throws
WeightThrows(tasks, c) ==
    \E i \in 1..Len(tasks) : ~getPositionalWeight(c, tasks[i].id, {}).ok

\* sortByHeuristic throws a RangeError
SortThrows(tasks, c, heuristic) ==
    heuristic \in {"slack", "weight", "hybrid"} /\ WeightThrows(tasks, c)

\* sortByHeuristic: the orders it can return.  shuffleTasks returns any
\* permutation; the hybrid comparator answers at random for two tasks
\* within 10% of each other, which leaves the order to the engine's sort.
sortByHeuristic(tasks, c, heuristic) ==
    CASE heuristic = "lpt" -> {sortByLPT(tasks)}
      [] heuristic = "slack" -> {sortBySlack(tasks, c)}
      [] heuristic = "weight" -> {sortByWeight(tasks, c)}
      [] heuristic = "random" -> ListPermutations(tasks)
      [] heuristic = "hybrid" ->
           IF \E i \in 1..Len(tasks), j \in 1..Len(tasks) :
                 /\ i # j
                 /\ WithinTenPercent(getPositionalWeight(c, tasks[i].id, {}).weight,
                                     getPositionalWeight(c, tasks[j].id, {}).weight)
           THEN ListPermutations(tasks)
           ELSE {sortByWeight(tasks, c)}

\* the index of the first task of the list that canAddTaskToStation admits
\* to the station, 0 when there is none
\* A scan that keeps going after the first admitted task and ends with the
\* last one.
LastAddable(order, st, c, assignedTasks) ==
    LET ok == {i \in 1..Len(order) : canAddTaskToStation(order[i], st, c, assignedTasks)}
    IN IF ok = {} THEN 0 ELSE CHOOSE i \in ok : \A j \in ok : i >= j

FirstAddable(order, st, c, assignedTasks) ==
    LET ok == {i \in 1..Len(order) : canAddTaskToStation(order[i], st, c, assignedTasks)}
    IN IF ok = {} THEN 0 ELSE CHOOSE i \in ok : \A j \in ok : i <= j

-----------------------------------------------------------------------------
(* The editing session: a caller applies the mutators to one ProblemConfig *)

Op(name, a, b) == [op |-> name, a |-> a, b |-> b]

IdleGen == [pc |-> "idle"]

IdleRun == [pc |-> "idle"]

NoRet == [kind |-> "none"]

Init ==
    /\ config = NewProblemConfig
    /\ removed = {}
    /\ nops = 0
    /\ lastOp = Op("new", "", "")
    /\ gen = IdleGen
    /\ run = IdleRun
    /\ sol = NewSolution(<<>>)
    /\ ret = NoRet

AddTask ==
    \E id \in TaskIds, pt \in Times, tool \in ToolTypes :
        /\ nops < MaxOps
        /\ config' = addTask(config, Task(id, pt, tool))
        /\ removed' = removed \ {id}
        /\ nops' = nops + 1
        /\ lastOp' = Op("addTask", id, "")
        /\ UNCHANGED <<gen, run, sol, ret>>

RemoveTask ==
    \E id \in TaskIds :
        /\ nops < MaxOps
        /\ config' = removeTask(config, id)
        /\ removed' = IF HasTask(config, id) THEN removed \cup {id} ELSE removed
        /\ nops' = nops + 1
        /\ lastOp' = Op("removeTask", id, "")
        /\ UNCHANGED <<gen, run, sol, ret>>

AddPrecedence ==
    \E from \in TaskIds, to \in TaskIds :
        /\ nops < MaxOps
        /\ config' = addPrecedence(config, from, to)
        /\ nops' = nops + 1
        /\ lastOp' = Op("addPrecedence", from, to)
        /\ UNCHANGED <<removed, gen, run, sol, ret>>

RemovePrecedence ==
    \E from \in TaskIds, to \in TaskIds :
        /\ nops < MaxOps
        /\ config' = removePrecedence(config, from, to)
        /\ nops' = nops + 1
        /\ lastOp' = Op("removePrecedence", from, to)
        /\ UNCHANGED <<removed, gen, run, sol, ret>>

Next ==
    \/ AddTask
    \/ RemoveTask
    \/ AddPrecedence
    \/ RemovePrecedence

Spec == Init /\ [][Next]_vars

-----------------------------------------------------------------------------
(* The ProblemConfigs handed to the checker: built with the mutators *)

RECURSIVE addTasks(_, _)

\* config.addTask for every task of a list
addTasks(c, tasks) ==
    IF Len(tasks) = 0 THEN c ELSE addTasks(addTask(c, Head(tasks)), Tail(tasks))

RECURSIVE addPrecedences(_, _)

\* config.addPrecedence for every <<from, to>> of a list
addPrecedences(c, edges) ==
    IF Len(edges) = 0 THEN c
    ELSE addPrecedences(addPrecedence(c, Head(edges)[1], Head(edges)[2]), Tail(edges))

\* all <<from, to>> pairs over the ids of IdOrder, in a fixed order
RECURSIVE PairsFrom(_, _)

PairsFrom(i, j) ==
    IF i > Len(IdOrder) THEN <<>>
    ELSE IF j > Len(IdOrder) THEN PairsFrom(i + 1, 1)
         ELSE <<(<<IdOrder[i], IdOrder[j]>>)>> \o PairsFrom(i, j + 1)

\* the lists of at most MaxEdges distinct precedence edges over ids
EdgeLists(ids) ==
    {SelectSeq(PairsFrom(1, 1), LAMBDA e : e \in S) :
        S \in {E \in SUBSET (ids \X ids) : Cardinality(E) <= MaxEdges}}

\* the tasks and the setToolLimit calls of the checked configs: the scenario
\* T1(10,M1), T2(10,M1), T3(10,M2) with M1 limited to 1, and a list with
\* shorter tasks under addTask's default limits
FeasInputs ==
    {[tasks |-> <<Task("T1", 10, "M1"), Task("T2", 10, "M1"), Task("T3", 10, "M2")>>,
      limits |-> [M1 |-> 1]],
     [tasks |-> <<Task("T1", 5, "M1"), Task("T2", 10, "M1"), Task("T3", 5, "M2")>>,
      limits |-> EmptyMap]}

\* a config built as ProblemConfig.fromJSON builds it: the tasks, the edges,
\* the takt time, then the tool limits
BuildConfig(tasks, edges, takt, limits) ==
    LET c0 == setTaktTime(addPrecedences(addTasks(NewProblemConfig, tasks), edges), takt)
    IN [c0 EXCEPT !.toolLimits =
          [t \in (DOMAIN c0.toolLimits) \cup (DOMAIN limits) |->
              IF t \in DOMAIN limits THEN limits[t] ELSE c0.toolLimits[t]]]

FeasConfigs ==
    {BuildConfig(in.tasks, edges, takt, in.limits) :
        in \in FeasInputs, edges \in EdgeLists(TaskIds), takt \in TaktTimes}

-----------------------------------------------------------------------------
(* The review session: a caller builds a Solution over the config's tasks, *)
(* as Solution.fromJSON does, and has it checked                           *)

Placed(solution) == Len(AssignedSequence(solution))

Building == lastOp.op \in {"new", "addStation", "Station.addTask"}

InitFeasibility ==
    /\ config \in FeasConfigs
    /\ removed = {}
    /\ nops = 0
    /\ lastOp = Op("new", "", "")
    /\ gen = IdleGen
    /\ run = IdleRun
    /\ sol = NewSolution(<<>>)
    /\ ret = NoRet

SolAddStation ==
    /\ Building
    /\ Len(sol.stations) < MaxStations
    /\ sol' = addStation(sol, NewStation(Len(sol.stations) + 1))
    /\ lastOp' = Op("addStation", "", "")
    /\ UNCHANGED <<config, removed, nops, gen, run, ret>>

SolAddTask ==
    \E i \in 1..Len(config.tasks) :
        /\ Building
        /\ Len(sol.stations) > 0
        /\ Placed(sol) < MaxPlaced
        /\ sol' = [sol EXCEPT !.stations[Len(sol.stations)] =
                      StationAddTask(sol.stations[Len(sol.stations)], config.tasks[i])]
        /\ lastOp' = Op("Station.addTask", config.tasks[i].id, "")
        /\ UNCHANGED <<config, removed, nops, gen, run, ret>>

CheckFeasibility ==
    /\ nops < MaxChecks
    /\ Len(sol.stations) > 0
    /\ ret' = [kind |-> "feasibility"] @@ checkFeasibility(sol, config)
    /\ nops' = nops + 1
    /\ lastOp' = Op("checkFeasibility", "", "")
    /\ UNCHANGED <<config, removed, gen, run, sol>>

ValidateSolution ==
    /\ nops < MaxChecks
    /\ Len(sol.stations) > 0
    /\ sol' = validateSolution(sol, config)
    /\ ret' = [kind |-> "feasibility", isValid |-> sol'.isValid,
               errors |-> sol'.validationErrors]
    /\ nops' = nops + 1
    /\ lastOp' = Op("validateSolution", "", "")
    /\ UNCHANGED <<config, removed, gen, run>>

NextFeasibility ==
    \/ SolAddStation
    \/ SolAddTask
    \/ CheckFeasibility
    \/ ValidateSolution

SpecFeasibility == InitFeasibility /\ [][NextFeasibility]_vars

-----------------------------------------------------------------------------
(* The generation run: generateAllSolutions(config, {iterations}), as step 3 *)
(* of reviewSolutions calls it, with its calls of generateMultipleSolutions  *)
(* and generateSolution.  A step of generateSolution is the first half of a  *)
(* loop iteration (the while test, the sort and the scan of the available    *)
(* tasks) or its second half (the taskAssigned test).                        *)

\* the processing times of the generated configs
GenTimes == {5, 10, 20}

\* the task lists of the generated configs: T1, T2 on M1 and T3 on M2 with
\* every choice of times, and a list without T3
GenTaskLists ==
    {<<Task("T1", a, "M1"), Task("T2", b, "M1"), Task("T3", d, "M2")>> :
        a \in GenTimes, b \in GenTimes, d \in GenTimes}
    \cup {<<Task("T1", 10, "M1"), Task("T2", 5, "M1")>>}

\* the setToolLimit calls of the generated configs: none, M1 = 1, M1 = 0
GenLimits == {EmptyMap} \cup {[M1 |-> l] : l \in Limits}

GenConfigs ==
    {BuildConfig(tasks, edges, takt, limits) :
        tasks \in GenTaskLists, edges \in EdgeLists(TaskIds),
        takt \in TaktTimes, limits \in GenLimits}

\* the iterations option of generateAllSolutions
Iterations == {5, 10}

\* generateAllSolutions: the heuristics list with every use* option at its default
Heuristics == <<"lpt", "slack", "random", "hybrid", "weight">>

\* A getHash that joins the sorted ids of all stations without the '|'
\* between the stations.
getHashJoiningStations(solution) ==
    <<[id \in TaskIds |->
        Cardinality({k \in 1..Len(AssignedSequence(solution)) :
                        AssignedSequence(solution)[k] = id})]>>

\* Solution.getHash: the sorted task ids of every station joined by ',' and
\* the stations joined by '|'.  The sorted ids of a station are given by the
\* number of times each id occurs; no stations and one empty station both
\* give the empty string.
getHash(solution) ==
    IF Len(solution.stations) = 0 THEN <<[id \in TaskIds |-> 0]>>
    ELSE [i \in 1..Len(solution.stations) |->
            [id \in TaskIds |->
                Cardinality({j \in 1..Len(solution.stations[i].tasks) :
                                solution.stations[i].tasks[j].id = id})]]

\* A push without the seenHashes test.
pushEvery(list, solution) == Append(list, solution)

\* if (!seenHashes.has(hash)) { seenHashes.add(hash); list.push(solution) }
\* where seenHashes holds the hashes of the list
pushUnseen(list, solution) ==
    IF \E i \in 1..Len(list) : getHash(list[i]) = getHash(solution) THEN list
    ELSE Append(list, solution)

RECURSIVE pushAllUnseen(_, _, _)

\* lines 205-211: the for loop over solutions, from index i
pushAllUnseen(allSolutions, solutions, i) ==
    IF i > Len(solutions) THEN allSolutions
    ELSE pushAllUnseen(pushUnseen(allSolutions, solutions[i]), solutions, i + 1)

InitGen ==
    /\ config \in GenConfigs
    /\ removed = {}
    /\ nops = 0
    /\ lastOp = Op("new", "", "")
    /\ gen = IdleGen
    /\ run = IdleRun
    /\ sol = NewSolution(<<>>)
    /\ ret = NoRet

\* generateAllSolutions, lines 179-201: up to the first heuristic
AllStart ==
    \E iterations \in Iterations :
        /\ run.pc = "idle"
        /\ run' = [pc |-> "for", h |-> 1, i |-> 0,
                   iterationsPerHeuristic |-> CeilDiv(iterations, Len(Heuristics)),
                   solutions |-> <<>>, allSolutions |-> <<>>]
        /\ lastOp' = Op("generateAllSolutions", "", "")
        /\ UNCHANGED <<config, removed, nops, gen, sol, ret>>

\* generateMultipleSolutions line 160-161 and generateSolution lines 101-104:
\* the next iteration calls generateSolution
GenStart ==
    /\ run.pc = "for"
    /\ run.h <= Len(Heuristics)
    /\ run.i < run.iterationsPerHeuristic
    /\ gen.pc = "idle"
    /\ gen' = [pc |-> "while", heuristic |-> Heuristics[run.h], stations |-> <<>>,
               assignedTasks |-> {}, currentStation |-> NewStation(1),
               taskAssigned |-> FALSE]
    /\ lastOp' = Op("generateSolution", Heuristics[run.h], "")
    /\ UNCHANGED <<config, removed, nops, run, sol, ret>>

\* the while test holds: unassigned tasks remain
Unfinished == Cardinality(gen.assignedTasks) < Len(config.tasks)

\* lines 106-113 and 140-145: the loop ends, because every task is assigned
\* or because no task is available, and the stations built so far are returned
GenReturn ==
    /\ gen.pc = "while"
    /\ ~Unfinished \/ Len(getAvailableTasks(config, gen.assignedTasks)) = 0
    /\ LET stations == IF Len(gen.currentStation.tasks) > 0
                       THEN Append(gen.stations, gen.currentStation)
                       ELSE gen.stations
       IN /\ gen' = [gen EXCEPT !.pc = "returned", !.stations = stations]
          /\ sol' = NewSolution(stations)
    /\ lastOp' = Op("return", "", "")
    /\ UNCHANGED <<config, removed, nops, run, ret>>

\* line 116: sortByHeuristic throws; nothing on the way up catches it
GenThrow ==
    /\ gen.pc = "while"
    /\ Unfinished
    /\ Len(getAvailableTasks(config, gen.assignedTasks)) > 0
    /\ SortThrows(getAvailableTasks(config, gen.assignedTasks), config, gen.heuristic)
    /\ gen' = [gen EXCEPT !.pc = "threw"]
    /\ run' = [run EXCEPT !.pc = "threw"]
    /\ ret' = [kind |-> "RangeError"]
    /\ lastOp' = Op("throw", "", "")
    /\ UNCHANGED <<config, removed, nops, sol>>

\* lines 106-129: the available tasks are sorted and scanned; the first one
\* that canAddTaskToStation admits joins the current station
GenScan ==
    /\ gen.pc = "while"
    /\ Unfinished
    /\ Len(getAvailableTasks(config, gen.assignedTasks)) > 0
    /\ ~SortThrows(getAvailableTasks(config, gen.assignedTasks), config, gen.heuristic)
    /\ \E order \in sortByHeuristic(getAvailableTasks(config, gen.assignedTasks),
                                    config, gen.heuristic) :
          LET i == FirstAddable(order, gen.currentStation, config, gen.assignedTasks)
          IN gen' = IF i = 0
                    THEN [gen EXCEPT !.pc = "if", !.taskAssigned = FALSE]
                    ELSE [gen EXCEPT !.pc = "if", !.taskAssigned = TRUE,
                             !.currentStation = StationAddTask(gen.currentStation, order[i]),
                             !.assignedTasks = gen.assignedTasks \cup {order[i].id}]
    /\ lastOp' = Op("scan", "", "")
    /\ UNCHANGED <<config, removed, nops, run, sol, ret>>

\* lines 131-137: when no task was assigned the current station is closed,
\* if it holds a task, and a new one is opened
GenIf ==
    /\ gen.pc = "if"
    /\ gen' = IF gen.taskAssigned THEN [gen EXCEPT !.pc = "while"]
              ELSE LET stations == IF Len(gen.currentStation.tasks) > 0
                                   THEN Append(gen.stations, gen.currentStation)
                                   ELSE gen.stations
                   IN [gen EXCEPT !.pc = "while", !.stations = stations,
                                  !.currentStation = NewStation(Len(stations) + 1)]
    /\ lastOp' = Op("if", "", "")
    /\ UNCHANGED <<config, removed, nops, run, sol, ret>>

\* generateMultipleSolutions lines 162-168: the returned solution is kept
\* unless its hash was seen
MultipleCollect ==
    /\ run.pc = "for"
    /\ gen.pc = "returned"
    /\ run' = [run EXCEPT !.i = run.i + 1, !.solutions = pushUnseen(run.solutions, sol)]
    /\ gen' = IdleGen
    /\ lastOp' = Op("collect", "", "")
    /\ UNCHANGED <<config, removed, nops, sol, ret>>

\* generateMultipleSolutions line 170 and generateAllSolutions lines 203-212:
\* the solutions of one heuristic join allSolutions
AllMerge ==
    /\ run.pc = "for"
    /\ run.h <= Len(Heuristics)
    /\ run.i = run.iterationsPerHeuristic
    /\ gen.pc = "idle"
    /\ run' = [run EXCEPT !.h = run.h + 1, !.i = 0, !.solutions = <<>>,
                          !.allSolutions = pushAllUnseen(run.allSolutions, run.solutions, 1)]
    /\ lastOp' = Op("merge", "", "")
    /\ UNCHANGED <<config, removed, nops, gen, sol, ret>>

\* generateAllSolutions line 214
AllReturn ==
    /\ run.pc = "for"
    /\ run.h > Len(Heuristics)
    /\ run' = [run EXCEPT !.pc = "returned"]
    /\ ret' = [kind |-> "solutions", solutions |-> run.allSolutions]
    /\ lastOp' = Op("return", "generateAllSolutions", "")
    /\ UNCHANGED <<config, removed, nops, gen, sol>>

NextGen ==
    \/ AllStart
    \/ GenStart
    \/ GenReturn
    \/ GenThrow
    \/ GenScan
    \/ GenIf
    \/ MultipleCollect
    \/ AllMerge
    \/ AllReturn

SpecGen == InitGen /\ [][NextGen]_vars

\* the run is one synchronous call: it goes on while a step remains
SpecGenFair == SpecGen /\ WF_vars(NextGen)

-----------------------------------------------------------------------------
(* Properties of the adjacency maps *)

\* the ids a precedence or successor list can hold
AllIds(c) == TaskIds \cup DOMAIN c.precedence \cup DOMAIN c.successors

\* a is in precedence[b] exactly when b is in successors[a]
MutuallyConsistent(c) ==
    \A a \in AllIds(c), b \in AllIds(c) :
        Includes(GetList(c.precedence, b), a) <=> Includes(GetList(c.successors, a), b)

NoDuplicate(s) == \A i \in 1..Len(s), j \in 1..Len(s) : s[i] = s[j] => i = j

NoDuplicates(c) ==
    /\ \A k \in DOMAIN c.precedence : NoDuplicate(c.precedence[k])
    /\ \A k \in DOMAIN c.successors : NoDuplicate(c.successors[k])

\* some precedence or successor list holds id
Mentioned(c, id) ==
    \/ \E k \in DOMAIN c.precedence : Includes(c.precedence[k], id)
    \/ \E k \in DOMAIN c.successors : Includes(c.successors[k], id)

\* a must come before b, by the predecessor map
Edge(c, a, b) == Includes(GetList(c.precedence, b), a)

RECURSIVE ReachFrom(_, _)

\* the ids reachable from the set S along precedence edges, S included
ReachFrom(c, S) ==
    LET next == S \cup {b \in AllIds(c) : \E a \in S : Edge(c, a, b)}
    IN IF next = S THEN S ELSE ReachFrom(c, next)

\* the ids that transitively depend on a
Descendants(c, a) == ReachFrom(c, {b \in AllIds(c) : Edge(c, a, b)})

OnCycle(c, x) == x \in Descendants(c, x)

Acyclic(c) == \A x \in AllIds(c) : ~OnCycle(c, x)

\* a directed cycle runs through a defined task or can be reached from one
CycleReachableFromTask(c) ==
    \E i \in 1..Len(c.tasks) :
        \E x \in {c.tasks[i].id} \cup Descendants(c, c.tasks[i].id) : OnCycle(c, x)

\* every id a precedence or successor list or key names is a defined task
EdgesDefined(c) ==
    \A a \in AllIds(c), b \in AllIds(c) :
        (Edge(c, a, b) \/ Includes(GetList(c.successors, a), b))
            => HasTask(c, a) /\ HasTask(c, b)

\* the position of id in a sequence of ids that holds it
IndexOf(s, id) == CHOOSE i \in 1..Len(s) : s[i] = id

\* the number of precedence edges
EdgeCount(c) ==
    Cardinality({<<a, b>> \in AllIds(c) \X AllIds(c) : Includes(GetList(c.precedence, b), a)})

\* C7 as stated: after any sequence of addTask, removeTask, addPrecedence and
\* removePrecedence calls the two maps are mutually consistent, no list holds a
\* duplicate, and no list mentions a task that removeTask removed.
C7_AsStated ==
    /\ MutuallyConsistent(config)
    /\ NoDuplicates(config)
    /\ \A id \in removed : ~Mentioned(config, id)

\* C7 as amended: after any sequence of the four mutators the two maps are
\* mutually consistent and no list holds a duplicate; when removeTask(id)
\* returns, no list mentions id and neither map has the key id.  (A later
\* addPrecedence that names id stores it again: it does not ask whether its
\* ids are defined tasks.)
C7_AdjacencyMapsConsistent ==
    /\ MutuallyConsistent(config)
    /\ NoDuplicates(config)
    /\ lastOp.op = "removeTask" =>
          /\ ~Mentioned(config, lastOp.a)
          /\ lastOp.a \notin DOMAIN config.precedence
          /\ lastOp.a \notin DOMAIN config.successors

\* C7 witness: removeTask has just removed a defined task and edges between
\* other ids remain in both maps.
C7_Witness ==
    /\ lastOp.op = "removeTask"
    /\ lastOp.a \in removed
    /\ EdgeCount(config) >= 1
    /\ Len(config.tasks) >= 1


-----------------------------------------------------------------------------
(* Properties of the precedence analyzer *)

\* C5: for every cycle-free ProblemConfig whose precedence edges join defined
\* tasks, topologicalSort returns a sequence that holds every task exactly
\* once and in which every direct predecessor of a task comes before it.
C5_TopologicalSortOrders ==
    (EdgesDefined(config) /\ Acyclic(config)) =>
        LET r == topologicalSort(config)
        IN /\ r.ok
           /\ Len(r.order) = Len(config.tasks)
           /\ \A i \in 1..Len(config.tasks) :
                 Cardinality({j \in 1..Len(r.order) : r.order[j] = config.tasks[i].id}) = 1
           /\ \A i \in 1..Len(config.tasks) :
                 \A a \in Range(GetList(config.precedence, config.tasks[i].id)) :
                    IndexOf(r.order, a) < IndexOf(r.order, config.tasks[i].id)

\* C5 witness: three tasks, two edges between them, no cycle, and an order
\* that is not the insertion order of the tasks.
C5_Witness ==
    /\ Len(config.tasks) = 3
    /\ EdgeCount(config) >= 2
    /\ EdgesDefined(config)
    /\ Acyclic(config)
    /\ topologicalSort(config).ok
    /\ topologicalSort(config).order # TaskKeys(config)

-----------------------------------------------------------------------------
(* Properties of the feasibility checker *)

Checks == {"checkFeasibility", "validateSolution"}

\* the ids of the tasks of every station, station by station
StationIds(solution) ==
    [s \in 1..Len(solution.stations) |-> getTaskIds(solution.stations[s])]

\* the number of occurrences of id in the solution
Occurrences(solution, id) ==
    Cardinality({k \in 1..Placed(solution) : AssignedSequence(solution)[k] = id})

\* every config task occurs exactly once
Complete(solution, c) ==
    \A i \in 1..Len(c.tasks) : Occurrences(solution, c.tasks[i].id) = 1

\* the number of tasks of the station that use the tool
ToolCount(st, tool) == Len(SelectSeq(st.tasks, LAMBDA t : t.toolType = tool))

\* constraint class 1: a config task is unassigned or assigned more than once
CompletenessViolated(solution, c) == ~Complete(solution, c)

\* constraint class 2: the tasks of a station take longer than the takt time
TaktViolated(solution, c) ==
    \E s \in 1..Len(solution.stations) : SumTimes(solution.stations[s].tasks) > c.taktTime

\* constraint class 3: a station holds more tasks of a tool than its limit
ToolViolated(solution, c) ==
    \E s \in 1..Len(solution.stations) :
        \E tool \in DOMAIN c.toolLimits :
            ToolCount(solution.stations[s], tool) > c.toolLimits[tool]

\* the position of a task that occurs exactly once: <<station index, index>>
PositionOf(solution, id) ==
    CHOOSE pos \in (1..Len(solution.stations)) \X (1..MaxPlaced + 1) :
        /\ pos[2] <= Len(solution.stations[pos[1]].tasks)
        /\ solution.stations[pos[1]].tasks[pos[2]].id = id

\* pos1 lies strictly before pos2
Before(pos1, pos2) == pos1[1] < pos2[1] \/ (pos1[1] = pos2[1] /\ pos1[2] < pos2[2])

\* the (predecessor, task) pairs whose two tasks are each assigned exactly once
PlacedPairs(solution, c) ==
    {e \in AllIds(c) \X AllIds(c) :
        /\ Edge(c, e[1], e[2])
        /\ Occurrences(solution, e[1]) = 1
        /\ Occurrences(solution, e[2]) = 1}

\* constraint class 4: a predecessor is not placed before its task
PrecedenceViolated(solution, c) ==
    \E e \in PlacedPairs(solution, c) :
        ~Before(PositionOf(solution, e[1]), PositionOf(solution, e[2]))

\* class 4 for pairs of two different tasks
PrecedenceViolatedBetweenTasks(solution, c) ==
    \E e \in PlacedPairs(solution, c) :
        e[1] # e[2] /\ ~Before(PositionOf(solution, e[1]), PositionOf(solution, e[2]))

HasError(errors, kinds) == \E i \in 1..Len(errors) : errors[i].kind \in kinds

PrecedenceKinds == {"precedenceUnassigned", "precedenceStation", "precedenceOrder"}

ScenarioConfig ==
    BuildConfig(<<Task("T1", 10, "M1"), Task("T2", 10, "M1"), Task("T3", 10, "M2")>>,
                <<(<<"T1", "T2">>)>>, 15, [M1 |-> 1])

RECURSIVE addTasksToStation(_, _)

\* Station.addTask for every task of a list
addTasksToStation(st, tasks) ==
    IF Len(tasks) = 0 THEN st
    ELSE addTasksToStation(StationAddTask(st, Head(tasks)), Tail(tasks))

\* the solutions of n stations with at most MaxPlaced occurrences of the
\* config's tasks
SolutionsOf(c, n) ==
    UNION {{NewSolution([s \in 1..n |->
                addTasksToStation(NewStation(s),
                    [i \in 1..Len(SelectSeq([x \in 1..k |-> x], LAMBDA x : where[x] = s)) |->
                        c.tasks[occ[SelectSeq([x \in 1..k |-> x],
                                              LAMBDA x : where[x] = s)[i]]]])]) :
              occ \in [1..k -> 1..Len(c.tasks)], where \in [1..k -> 1..n]} :
           k \in 0..MaxPlaced}

\* C10 as stated: in the scenario a two-station assignment exists that
\* checkFeasibility accepts.
C10_AsStated ==
    config = ScenarioConfig =>
        \E a \in SolutionsOf(config, 2) : checkFeasibility(a, config).isValid

\* station1={T1}, station2={T2}, station3={T3} over the scenario's tasks
ScenarioThreeStations ==
    NewSolution([s \in 1..3 |->
        addTasksToStation(NewStation(s), <<ScenarioConfig.tasks[s]>>)])

\* C10 as amended: in the scenario checkFeasibility accepts no assignment of
\* fewer than three stations (any two of the tasks take 20 > 15), and it
\* accepts the three-station assignment station1={T1}, station2={T2},
\* station3={T3}.
C10_ScenarioNeedsThreeStations ==
    config = ScenarioConfig =>
        /\ checkFeasibility(ScenarioThreeStations, config).isValid
        /\ \A n \in 1..2 : \A a \in SolutionsOf(config, n) :
              ~checkFeasibility(a, config).isValid
        /\ ret.kind = "feasibility" =>
              /\ ret.isValid => Len(sol.stations) >= 3
              /\ StationIds(sol) = <<(<<"T1">>), <<"T2">>, <<"T3">>>> => ret.isValid

\* C10 witness: checkFeasibility accepted {T1}, {T2}, {T3} in the scenario.
C10_Witness ==
    /\ config = ScenarioConfig
    /\ lastOp.op = "checkFeasibility"
    /\ ret.kind = "feasibility"
    /\ ret.isValid
    /\ StationIds(sol) = <<(<<"T1">>), <<"T2">>, <<"T3">>>>

-----------------------------------------------------------------------------
(* Properties of the heuristic generator *)

\* a call of generateSolution is in its loop
InLoop == gen.pc \in {"while", "if"}

\* the call of generateSolution has ended
Ended == gen.pc \in {"returned", "threw"}

\* each task alone fits an empty station
Fits(c) ==
    \A i \in 1..Len(c.tasks) :
        /\ c.tasks[i].processingTime <= c.taktTime
        /\ MapHas(c.toolLimits, c.tasks[i].toolType)
              => c.toolLimits[c.tasks[i].toolType] >= 1

\* the solution passes checkFeasibility and breaks none of the four classes
Feasible(solution, c) ==
    /\ checkFeasibility(solution, c).isValid
    /\ ~CompletenessViolated(solution, c)
    /\ ~TaktViolated(solution, c)
    /\ ~ToolViolated(solution, c)
    /\ ~PrecedenceViolated(solution, c)

\* C1 as stated: for every config, a call of the heuristic generateSolution
\* that has entered its construction loop eventually ends.
C1_AsStated == InLoop ~> Ended

C3_AsStated ==
    gen.pc = "returned" =>
        \A i \in 1..Len(config.tasks) : Occurrences(sol, config.tasks[i].id) >= 1

\* C4 as stated: on a config whose precedence graph is cyclic or names an
\* undefined task id, no generation attempt is executed and the run ends
\* with a configuration error.
C4_AsStated ==
    (~Acyclic(config) \/ ~EdgesDefined(config)) =>
        /\ gen.pc = "idle"
        /\ run.pc \in {"returned", "threw"} => ret.kind = "ConfigurationError"

-----------------------------------------------------------------------------
(* The scenario session: a caller builds a Solution over the scenario's    *)
(* tasks, has it checked, and asks canAddTaskToStation about its stations  *)

InitScenario ==
    /\ config = ScenarioConfig
    /\ removed = {}
    /\ nops = 0
    /\ lastOp = Op("new", "", "")
    /\ gen = IdleGen
    /\ run = IdleRun
    /\ sol = NewSolution(<<>>)
    /\ ret = NoRet

\* canAddTaskToStation(task, station, config, assignedTasks) for a config
\* task, a station of the solution and a set of task ids
CanAddTaskToStation ==
    \E i \in 1..Len(config.tasks), s \in 1..Len(sol.stations), assignedTasks \in SUBSET TaskIds :
        /\ nops < MaxChecks
        /\ ret' = [kind |-> "canAdd", task |-> config.tasks[i].id, station |-> s,
                   canAdd |-> canAddTaskToStation(config.tasks[i], sol.stations[s],
                                                  config, assignedTasks),
                   reason |-> canAddReason(config.tasks[i], sol.stations[s],
                                           config, assignedTasks)]
        /\ nops' = nops + 1
        /\ lastOp' = Op("canAddTaskToStation", config.tasks[i].id, "")
        /\ UNCHANGED <<config, removed, gen, run, sol>>

NextScenario ==
    \/ SolAddStation
    \/ SolAddTask
    \/ CheckFeasibility
    \/ ValidateSolution
    \/ CanAddTaskToStation

SpecScenario == InitScenario /\ [][NextScenario]_vars

-----------------------------------------------------------------------------
(* Properties of the scenario *)

\* station s of the solution holds the task id
Holds(solution, s, id) == Includes(getTaskIds(solution.stations[s]), id)

\* some station holds both T1 and T2
T1T2Together(solution) ==
    \E s \in 1..Len(solution.stations) : Holds(solution, s, "T1") /\ Holds(solution, s, "T2")

\* C11: in the scenario every checked assignment with T1 and T2 in one station
\* is rejected, with a takt error and an M1 tool error for that station, and
\* canAddTaskToStation refuses T2 for every station that holds T1, giving the
\* takt time as the reason.
C11_ScenarioRejectsT1WithT2 ==
    /\ (ret.kind = "feasibility" /\ T1T2Together(sol)) =>
          /\ ~ret.isValid
          /\ \A s \in 1..Len(sol.stations) :
                (Holds(sol, s, "T1") /\ Holds(sol, s, "T2")) =>
                    /\ \E k \in 1..Len(ret.errors) :
                          ret.errors[k] = [kind |-> "takt", station |-> s]
                    /\ \E k \in 1..Len(ret.errors) :
                          ret.errors[k] = [kind |-> "tool", station |-> s, tool |-> "M1"]
    /\ (ret.kind = "canAdd" /\ ret.task = "T2" /\ Holds(sol, ret.station, "T1")) =>
          ~ret.canAdd /\ ret.reason = "takt"

\* C11 witness: checkFeasibility rejected station1={T1,T2}, station2={T3}.
C11_Witness ==
    /\ ret.kind = "feasibility"
    /\ StationIds(sol) = <<(<<"T1", "T2">>), <<"T3">>>>
    /\ ~ret.isValid

-----------------------------------------------------------------------------
(* Objective calculation (objectives.js) *)

RECURSIVE SumTotalTime(_)

\* stations.reduce((sum, s) => sum + s.totalTime, 0)
SumTotalTime(stations) ==
    IF Len(stations) = 0 THEN 0 ELSE Head(stations).totalTime + SumTotalTime(Tail(stations))

RECURSIVE SumSquares(_)

\* the sum of the squares of the stations' totalTime
SumSquares(stations) ==
    IF Len(stations) = 0 THEN 0
    ELSE Head(stations).totalTime * Head(stations).totalTime + SumSquares(Tail(stations))

\* A calculateEconomicScore without the station penalty term.
calculateEconomicScoreEfficiencyOnly(solution, c) ==
    IF Len(solution.stations) = 0 THEN Number(0, 1)
    ELSE Number(7 * SumTotalTime(solution.stations),
                10 * Len(solution.stations) * c.taktTime)

\* calculateEconomicScore, for a takt time > 0
calculateEconomicScore(solution, c) ==
    IF Len(solution.stations) = 0 THEN Number(0, 1)
    ELSE LET totalAvailableTime == Len(solution.stations) * c.taktTime
             totalUsedTime == SumTotalTime(solution.stations)
             totalIdleTime == totalAvailableTime - totalUsedTime
             efficiency == RSub(Rat(1, 1), Rat(totalIdleTime, totalAvailableTime))
             minStations == CeilDiv(totalUsedTime, c.taktTime)
             stationPenalty == Rat(minStations, Len(solution.stations))
         IN Surd(RAdd(RMul(Rat(7, 10), efficiency), RMul(Rat(3, 10), stationPenalty)),
                 Rat(0, 1), Rat(0, 1))

\* A calculateSocialScore whose variance is taken around 0, not the mean.
calculateSocialScoreAroundZero(solution, c) ==
    IF Len(solution.stations) <= 1 THEN Number(1, 1)
    ELSE LET n == Len(solution.stations)
             total == SumTotalTime(solution.stations)
         IN IF total = 0 THEN Number(1, 1)
            ELSE LET cvSquared == Rat(n * SumSquares(solution.stations), total * total)
                 IN IF ~RLess(cvSquared, Rat(1, 1)) THEN Number(0, 1)
                    ELSE Surd(Rat(1, 1), Rat(1, 1), cvSquared)

\* calculateSocialScore: Math.max(0, 1 - stdDev / mean), where
\* (stdDev / mean)^2 = variance / mean^2 = (n * sum of t^2 - (sum of t)^2) / (sum of t)^2
calculateSocialScore(solution, c) ==
    IF Len(solution.stations) <= 1 THEN Number(1, 1)
    ELSE LET n == Len(solution.stations)
             total == SumTotalTime(solution.stations)
         IN IF total = 0 THEN Number(1, 1)
            ELSE LET cvSquared == Rat(n * SumSquares(solution.stations) - total * total,
                                      total * total)
                 IN IF ~RLess(cvSquared, Rat(1, 1)) THEN Number(0, 1)
                    ELSE Surd(Rat(1, 1), Rat(1, 1), cvSquared)

RECURSIVE SumEnvScore(_)

\* the sum of task.envScore over a task list
SumEnvScore(tasks) ==
    IF Len(tasks) = 0 THEN 0 ELSE Head(tasks).envScore + SumEnvScore(Tail(tasks))

RECURSIVE SumToolDiversity(_)

\* the sum of station.tools.size - 1 over the stations
SumToolDiversity(stations) ==
    IF Len(stations) = 0 THEN 0
    ELSE Cardinality(DOMAIN Head(stations).tools) - 1 + SumToolDiversity(Tail(stations))

\* the task occurrences of a solution, station by station
AllTasks(solution) ==
    Flatten([s \in 1..Len(solution.stations) |-> solution.stations[s].tasks])

\* calculateEnvironmentalScore
calculateEnvironmentalScore(solution, c) ==
    IF Len(solution.stations) = 0 THEN Number(0, 1)
    ELSE LET totalEnvImpact == SumEnvScore(AllTasks(solution))
             maxPossibleImpact == 10 * Len(AllTasks(solution))
         IN IF maxPossibleImpact = 0 THEN Number(1, 1)
            ELSE LET toolDiversityPenalty == SumToolDiversity(solution.stations)
                     maxToolDiversity ==
                         Len(solution.stations) * Cardinality(DOMAIN c.toolLimits)
                     normalizedToolPenalty ==
                         IF maxToolDiversity > 0
                         THEN Rat(toolDiversityPenalty, maxToolDiversity)
                         ELSE Rat(0, 1)
                     baseScore == RSub(Rat(1, 1), Rat(totalEnvImpact, maxPossibleImpact))
                 IN Surd(RAdd(RMul(Rat(4, 5), baseScore),
                              RMul(Rat(1, 5), RSub(Rat(1, 1), normalizedToolPenalty))),
                         Rat(0, 1), Rat(0, 1))

\* economic * weights.economic + social * weights.social
\*   + environmental * weights.environmental
WeightedSum(scores, weights) ==
    Plus(Plus(Scale(scores.economic, weights.economic),
              Scale(scores.social, weights.social)),
         Scale(scores.environmental, weights.environmental))

\* calculateAllScores
calculateAllScores(solution, c) ==
    LET scores == [economic |-> calculateEconomicScore(solution, c),
                   social |-> calculateSocialScore(solution, c),
                   environmental |-> calculateEnvironmentalScore(solution, c)]
    IN [solution EXCEPT !.scores =
            scores @@ [weighted |-> WeightedSum(scores, c.weights)]]

\* updateWeightedScores
updateWeightedScores(solutions, weights) ==
    [k \in 1..Len(solutions) |->
        [solutions[k] EXCEPT !.scores.weighted = WeightedSum(solutions[k].scores, weights)]]

-----------------------------------------------------------------------------
(* Pareto analysis (pareto.js) and Solution.fromJSON *)

RECURSIVE dominatesLoopIgnoringBetter(_, _, _, _)

\* A dominance loop that does not ask for a strictly better score.
dominatesLoopIgnoringBetter(aScores, bScores, i, betterInOne) ==
    IF i > 3 THEN TRUE
    ELSE IF Less(aScores[i], bScores[i]) THEN FALSE
         ELSE dominatesLoopIgnoringBetter(aScores, bScores, i + 1, betterInOne)

RECURSIVE dominatesLoop(_, _, _, _)

\* the for loop of dominates from index i (1..3); the result is
\* atLeastAsGood && betterInOne
dominatesLoop(aScores, bScores, i, betterInOne) ==
    IF i > 3 THEN betterInOne
    ELSE IF Less(aScores[i], bScores[i]) THEN FALSE
         ELSE dominatesLoop(aScores, bScores, i + 1,
                            betterInOne \/ Less(bScores[i], aScores[i]))

\* [s.scores.economic, s.scores.social, s.scores.environmental]
ScoreList(s) == <<s.scores.economic, s.scores.social, s.scores.environmental>>

dominates(a, b) == dominatesLoop(ScoreList(a), ScoreList(b), 1, FALSE)

\* solutions.filter(s => s.isValid)
ValidOnes(solutions) == SelectSeq(solutions, LAMBDA s : s.isValid)

\* A findParetoFront that compares a candidate only with the candidates
\* before it.
findParetoFrontLookingBack(solutions) ==
    LET valid == ValidOnes(solutions)
        kept == SelectSeq([k \in 1..Len(valid) |-> k],
                    LAMBDA k : ~\E o \in 1..Len(valid) :
                                    o < k /\ dominates(valid[o], valid[k]))
    IN [k \in 1..Len(kept) |-> valid[kept[k]]]

\* A findParetoFront that also drops a candidate when another entry has the
\* same three scores.
findParetoFrontDroppingTies(solutions) ==
    LET valid == ValidOnes(solutions)
        kept == SelectSeq([k \in 1..Len(valid) |-> k],
                    LAMBDA k : ~\E o \in 1..Len(valid) :
                                    /\ o # k
                                    /\ \/ dominates(valid[o], valid[k])
                                       \/ ScoreList(valid[o]) = ScoreList(valid[k]))
    IN [k \in 1..Len(kept) |-> valid[kept[k]]]

\* findParetoFront: candidate === other is the identity of two list entries
findParetoFront(solutions) ==
    LET valid == ValidOnes(solutions)
        kept == SelectSeq([k \in 1..Len(valid) |-> k],
                    LAMBDA k : ~\E o \in 1..Len(valid) :
                                    o # k /\ dominates(valid[o], valid[k]))
    IN [k \in 1..Len(kept) |-> valid[kept[k]]]

\* Solution.fromJSON(json, taskMap): a station per entry with the tasks that
\* taskMap knows; scores and isValid are taken over when the JSON has them
fromJSON(json, c) ==
    LET stations ==
            [s \in 1..Len(json.stations) |->
                addTasksToStation(NewStation(json.stations[s].id),
                    [k \in 1..Len(SelectSeq(json.stations[s].tasks, LAMBDA id : HasTask(c, id))) |->
                        GetTask(c, SelectSeq(json.stations[s].tasks,
                                             LAMBDA id : HasTask(c, id))[k])])]
        solution == NewSolution(stations)
    IN [solution EXCEPT !.scores = IF json.hasScores THEN json.scores ELSE @,
                        !.isValid = IF json.hasIsValid THEN json.isValid ELSE @]

-----------------------------------------------------------------------------
(* The Pareto session: a caller imports solutions that carry their scores *)
(* and validity and asks for dominance and for the Pareto front           *)

\* the most solutions imported
MaxSolutions == 3

\* the scores of the imported solutions: 0, 1/2, 1 and 1 - sqrt(1/2)
ImportedScores ==
    {[economic |-> e, social |-> so, environmental |-> en, weighted |-> Number(0, 1)] :
        e \in {Number(0, 1), Number(1, 2), Number(1, 1)},
        so \in {Number(1, 2), Surd(Rat(1, 1), Rat(1, 1), Rat(1, 2))},
        en \in {Number(0, 1), Number(1, 1)}}

InitPareto ==
    /\ config = NewProblemConfig
    /\ removed = {}
    /\ nops = 0
    /\ lastOp = Op("new", "", "")
    /\ gen = IdleGen
    /\ run = [pc |-> "idle", solutions |-> <<>>]
    /\ sol = NewSolution(<<>>)
    /\ ret = NoRet

\* importSolutionsFromJSON, one entry of json.solutions
ImportScored ==
    \E scores \in ImportedScores, isValid \in BOOLEAN :
        /\ ret = NoRet
        /\ Len(run.solutions) < MaxSolutions
        /\ sol' = fromJSON([stations |-> <<>>, hasScores |-> TRUE, scores |-> scores,
                            hasIsValid |-> TRUE, isValid |-> isValid], config)
        /\ run' = [run EXCEPT !.solutions = Append(run.solutions, sol')]
        /\ lastOp' = Op("fromJSON", "", "")
        /\ UNCHANGED <<config, removed, nops, gen, ret>>

Dominates ==
    \E a \in 1..Len(run.solutions), b \in 1..Len(run.solutions) :
        /\ ret = NoRet
        /\ ret' = [kind |-> "dominates", a |-> a, b |-> b,
                   value |-> dominates(run.solutions[a], run.solutions[b])]
        /\ lastOp' = Op("dominates", "", "")
        /\ UNCHANGED <<config, removed, nops, gen, run, sol>>

FindParetoFront ==
    /\ ret = NoRet
    /\ ret' = [kind |-> "front", front |-> findParetoFront(run.solutions)]
    /\ lastOp' = Op("findParetoFront", "", "")
    /\ UNCHANGED <<config, removed, nops, gen, run, sol>>

NextPareto ==
    \/ ImportScored
    \/ Dominates
    \/ FindParetoFront

SpecPareto == InitPareto /\ [][NextPareto]_vars

-----------------------------------------------------------------------------
(* Properties of the Pareto analysis *)

\* each score of a is >= the score of b and one is greater
BetterOrEqualAndBetter(a, b) ==
    /\ \A k \in 1..3 : ~Less(ScoreList(a)[k], ScoreList(b)[k])
    /\ \E k \in 1..3 : Less(ScoreList(b)[k], ScoreList(a)[k])

\* C12: dominates(a, b) is true exactly when each of a's three scores is >=
\* b's and one is strictly greater; dominates(a, b) and dominates(b, a) are
\* never both true and dominates(a, a) is false.
C12_DominatesStrictOrder ==
    ret.kind = "dominates" =>
        LET a == run.solutions[ret.a]
            b == run.solutions[ret.b]
        IN /\ ret.value = BetterOrEqualAndBetter(a, b)
           /\ ~(ret.value /\ dominates(b, a))
           /\ ~dominates(a, a)
           /\ ret.a = ret.b => ~ret.value

\* C12 witness: dominates returned true for two solutions with the same
\* economic score, of which one has the social score 1 - sqrt(1/2).
C12_Witness ==
    /\ ret.kind = "dominates"
    /\ ret.value
    /\ run.solutions[ret.a].scores.economic = run.solutions[ret.b].scores.economic
    /\ run.solutions[ret.b].scores.social.c.n # 0
    /\ run.solutions[ret.a].scores.social.c.n = 0

\* C13 as stated: no element of the returned front is dominated by an
\* element of the input list.
C13_AsStated ==
    ret.kind = "front" =>
        \A f \in 1..Len(ret.front), o \in 1..Len(run.solutions) :
            ~dominates(run.solutions[o], ret.front[f])

\* C13 as amended: the returned front holds valid elements of the input list
\* only, and none of them is dominated by a valid element of the input list.
C13_FrontNotDominatedByValid ==
    ret.kind = "front" =>
        \A f \in 1..Len(ret.front) :
            /\ ret.front[f].isValid
            /\ \E o \in 1..Len(run.solutions) : run.solutions[o] = ret.front[f]
            /\ \A o \in 1..Len(run.solutions) :
                  run.solutions[o].isValid => ~dominates(run.solutions[o], ret.front[f])

\* C13 witness: of three valid solutions the front kept one.
C13_Witness ==
    /\ ret.kind = "front"
    /\ Len(run.solutions) = 3
    /\ \A o \in 1..3 : run.solutions[o].isValid
    /\ Len(ret.front) = 1

-----------------------------------------------------------------------------
(* The scoring session: a caller builds a Solution over a config's tasks, *)
(* validates it, scores it when it is valid and changes the weights       *)

\* new Task(id, processingTime, toolType, envScore)
TaskWithEnv(id, processingTime, toolType, envScore) ==
    [id |-> id, processingTime |-> processingTime, toolType |-> toolType,
     envScore |-> envScore]

\* the envScore values of the scored configs
EnvScores == {0, 1, 10}

\* the weight triples: the default, the normalized 9 : 6 : 8 of the result
\* page, and triples that do not sum to 1
ScoreWeights ==
    {DefaultWeights,
     [economic |-> Rat(9, 23), social |-> Rat(6, 23), environmental |-> Rat(8, 23)],
     [economic |-> Rat(1, 1), social |-> Rat(1, 1), environmental |-> Rat(1, 1)],
     [economic |-> Rat(2, 1), social |-> Rat(0, 1), environmental |-> Rat(0, 1)]}

\* configs as ProblemConfig.fromJSON builds them, with json.weights
ScoreConfigs ==
    {[BuildConfig(<<TaskWithEnv("T1", 10, "M1", a), TaskWithEnv("T2", 5, "M1", b),
                    TaskWithEnv("T3", 5, "M2", 1)>>, edges, takt, EmptyMap)
        EXCEPT !.weights = w] :
        a \in EnvScores, b \in EnvScores, edges \in {<<>>, <<(<<"T1", "T2">>)>>},
        takt \in TaktTimes, w \in ScoreWeights}

InitScoring ==
    /\ config \in ScoreConfigs
    /\ removed = {}
    /\ nops = 0
    /\ lastOp = Op("new", "", "")
    /\ gen = IdleGen
    /\ run = IdleRun
    /\ sol = NewSolution(<<>>)
    /\ ret = NoRet

\* validateSolution(sol, config), as both pipelines call it before scoring
ValidateBuilt ==
    /\ Building
    /\ sol' = validateSolution(sol, config)
    /\ lastOp' = Op("validateSolution", "", "")
    /\ UNCHANGED <<config, removed, nops, gen, run, ret>>

\* if (sol.isValid) calculateAllScores(sol, config)
CalculateAllScores ==
    /\ lastOp.op = "validateSolution"
    /\ sol.isValid
    /\ sol' = calculateAllScores(sol, config)
    /\ lastOp' = Op("calculateAllScores", "", "")
    /\ UNCHANGED <<config, removed, nops, gen, run, ret>>

\* updateWeightedScores([sol], weights)
UpdateWeightedScores ==
    \E weights \in ScoreWeights :
        /\ lastOp.op = "calculateAllScores"
        /\ sol' = updateWeightedScores(<<sol>>, weights)[1]
        /\ lastOp' = Op("updateWeightedScores", "", "")
        /\ ret' = [kind |-> "weights", weights |-> weights]
        /\ UNCHANGED <<config, removed, nops, gen, run>>

NextScoring ==
    \/ SolAddStation
    \/ SolAddTask
    \/ ValidateBuilt
    \/ CalculateAllScores
    \/ UpdateWeightedScores

SpecScoring == InitScoring /\ [][NextScoring]_vars

-----------------------------------------------------------------------------
(* Properties of the objective calculation *)

\* the solution was validated as valid and scored
Scored == lastOp.op \in {"calculateAllScores", "updateWeightedScores"}

\* the weights with which the stored weighted score was computed
WeightsUsed == IF lastOp.op = "updateWeightedScores" THEN ret.weights ELSE config.weights

\* wE + wS + wEnv
WeightTotal(weights) == RAdd(RAdd(weights.economic, weights.social), weights.environmental)

InUnitInterval(x) == ~Less(x, Number(0, 1)) /\ ~Less(Number(1, 1), x)

\* C18 as stated: the stored weighted score is (economic * wE + social * wS +
\* environmental * wEnv) / (wE + wS + wEnv).
C18_AsStated ==
    Scored =>
        sol.scores.weighted =
            Scale(WeightedSum(sol.scores, WeightsUsed),
                  RDiv(Rat(1, 1), WeightTotal(WeightsUsed)))

\* C19 as stated: the economic score of a valid solution is the total
\* processing time of all tasks / (taktTime * station count), capped at 1.
C19_AsStated ==
    Scored =>
        LET ratio == Number(SumTimes(config.tasks), config.taktTime * Len(sol.stations))
        IN sol.scores.economic = IF Less(Number(1, 1), ratio) THEN Number(1, 1) ELSE ratio

\* C20 as stated: the economic, social and environmental scores of a valid
\* solution lie in [0, 1].
C20_AsStated ==
    Scored =>
        /\ InUnitInterval(sol.scores.economic)
        /\ InUnitInterval(sol.scores.social)
        /\ InUnitInterval(sol.scores.environmental)

-----------------------------------------------------------------------------
(* The hash session: a caller builds two Solutions over the config's tasks, *)
(* has them validated and compares their hashes                             *)

\* T1(5,M1), T2(5,M1), T3(5,M2) with T1 before T2, takt time 15 and
\* addTask's default tool limits: T1 and T2 fit one station in either order
HashConfig ==
    BuildConfig(<<Task("T1", 5, "M1"), Task("T2", 5, "M1"), Task("T3", 5, "M2")>>,
                <<(<<"T1", "T2">>)>>, 15, EmptyMap)

InitHash ==
    /\ config = HashConfig
    /\ removed = {}
    /\ nops = 0
    /\ lastOp = Op("new", "", "")
    /\ gen = IdleGen
    /\ run = [pc |-> "idle", solutions |-> <<>>]
    /\ sol = NewSolution(<<>>)
    /\ ret = NoRet

\* validateSolution(sol, config) on the first solution, which the caller
\* keeps; the caller goes on with a new Solution
KeepValidated ==
    /\ Building
    /\ run.solutions = <<>>
    /\ run' = [run EXCEPT !.solutions = <<validateSolution(sol, config)>>]
    /\ sol' = NewSolution(<<>>)
    /\ lastOp' = Op("new", "", "")
    /\ UNCHANGED <<config, removed, nops, gen, ret>>

\* validateSolution(sol, config) on the second solution, then
\* kept.getHash() === sol.getHash()
GetHash ==
    /\ Building
    /\ Len(run.solutions) = 1
    /\ sol' = validateSolution(sol, config)
    /\ ret' = [kind |-> "hash",
               same |-> getHash(run.solutions[1]) = getHash(sol)]
    /\ lastOp' = Op("getHash", "", "")
    /\ UNCHANGED <<config, removed, nops, gen, run>>

NextHash ==
    \/ SolAddStation
    \/ SolAddTask
    \/ KeepValidated
    \/ GetHash

SpecHash == InitHash /\ [][NextHash]_vars

-----------------------------------------------------------------------------
(* Properties of Solution.getHash *)

\* the kept solution and the compared one have the same hash
SameHash == ret.kind = "hash" /\ ret.same

\* the number of times id occurs in the station
CountInStation(st, id) ==
    Cardinality({j \in 1..Len(st.tasks) : st.tasks[j].id = id})

\* the errors that do not depend on the order of the tasks within a station
OrderFreeErrors(solution) ==
    {solution.validationErrors[k] : k \in
        {j \in 1..Len(solution.validationErrors) :
            solution.validationErrors[j].kind # "precedenceOrder"}}

-----------------------------------------------------------------------------
(* The result page, main.js: findParetoSolutions and its generateSolution. *)
(* Station ids "WS<n>" are the number n.  The scores of generateSolution   *)
(* are in thousandths.                                                     *)

\* for (let numStations = 10; numStations <= 25; numStations++)
FirstNumStations == 10

LastNumStations == 25

\* for (let iter = 0; iter < 100; iter++)
ItersPerNumStations == 100

\* (Math.sin(x) + 1) * 20 in thousandths, rounded down, for x = 0, 5, 10, ...,
\* 990: the values for seeds 0..99 and processing times 5 and 10
SineTable ==
    <<20000, 821, 9119, 33005, 38258, 17352, 239, 11436, 34902, 37018,
      14752, 4, 13903, 36536, 35477, 12244, 122, 16478, 37879, 33665,
      9872, 589, 19115, 38908, 31612, 7679, 1397, 21767, 39604, 29354,
      5702, 2533, 24388, 39955, 26932, 3977, 3976, 26932, 39955, 24389,
      2534, 5702, 29354, 39604, 21767, 1398, 7678, 31611, 38908, 19115,
      589, 9872, 33664, 37880, 16479, 122, 12243, 35477, 36536, 13904,
      4, 14751, 37017, 34902, 11436, 239, 17352, 38258, 33006, 9120,
      821, 19999, 39178, 30880, 6994, 1740, 22646, 39760, 28564, 5098,
      2981, 25246, 39995, 26096, 3463, 4521, 27755, 39877, 23522, 2120,
      6334, 30126, 39410, 20885, 1091, 8387, 32320, 38602, 18233, 395,
      10644, 34297, 37466, 15612, 44, 13066, 36022, 36023, 13068, 43,
      15610, 37465, 34298, 10646, 394, 18231, 38601, 32321, 8388, 1090,
      20883, 39410, 30128, 6335, 2119, 23520, 39877, 27756, 4522, 3462,
      26095, 39995, 25248, 2982, 5096, 28562, 39760, 22648, 1741, 6993,
      30879, 39178, 20001, 821, 9118, 33004, 38259, 17354, 239, 11435,
      34901, 37018, 14753, 4, 13902, 36535, 35478, 12245, 122, 16477,
      37879, 33666, 9873, 589, 19113, 38908, 31613, 7680, 1397, 21766,
      39604, 29355, 5703, 2533, 24387, 39955, 26934, 3978, 3976, 26931,
      39956, 24390, 2534, 5701, 29353, 39605, 21769, 1398, 7677, 31610,
      38909, 19116, 589, 9871, 33663, 37880, 16480, 122, 12242>>

\* (Math.sin(seed * processingTime) + 1) * 20
sineTerm(seed, processingTime) == SineTable[(seed * processingTime) \div 5 + 1]

\* one pass of lines 303-310 from every visited id: the keys of
\* config.precedence whose list holds the task or a visited id
SuccessorStep(c, id, visited) ==
    visited \cup {to \in DOMAIN c.precedence :
                    \E curr \in visited \cup {id} : Includes(c.precedence[to], curr)}

RECURSIVE SuccessorsReached(_, _, _)

SuccessorsReached(c, id, visited) ==
    IF SuccessorStep(c, id, visited) = visited THEN visited
    ELSE SuccessorsReached(c, id, SuccessorStep(c, id, visited))

\* lines 297-314: successorCount.get(id)
successorCount(c, id) == Cardinality(SuccessorsReached(c, id, {}))

\* lines 329-345: the score of an available task; p holds targetStations,
\* maxStdev, maxTime and toolVariety.  t.processingTime <= remaining with
\* idealTimePerStation = min(totalTime / targetStations, maxTime)
taskScore(c, p, seed, station, t) ==
    (IF /\ (station.totalTime + t.processingTime) * p.targetStations <= SumTimes(c.tasks)
        /\ station.totalTime + t.processingTime <= p.maxTime
     THEN 100000 ELSE 0)
    + successorCount(c, t.id) * 3000
    + (IF MapHas(station.tools, t.toolType) THEN 30000 ELSE 0)
    - (IF /\ ~MapHas(station.tools, t.toolType)
          /\ Cardinality(DOMAIN station.tools) >= p.toolVariety
       THEN 500000 ELSE 0)
    + sineTerm(seed, t.processingTime)

\* lines 347-348: scored[0] of the stable sort by descending score
bestOf(c, p, seed, station, available) ==
    LET scores == [j \in 1..Len(available) |-> taskScore(c, p, seed, station, available[j])]
    IN available[CHOOSE i \in 1..Len(available) :
           /\ \A j \in 1..Len(available) : scores[j] <= scores[i]
           /\ \A j \in 1..(i - 1) : scores[j] < scores[i]]

RECURSIVE fillStationAnyTools(_, _, _, _, _)

\* A station loop without the tool variety test before station.addTask.
fillStationAnyTools(c, p, seed, station, assigned) ==
    LET available == getAvailableTasks(c, assigned)
    IN IF Len(available) = 0 THEN [station |-> station, assigned |-> assigned]
       ELSE LET best == bestOf(c, p, seed, station, available)
            IN IF station.totalTime + best.processingTime > p.maxTime
               THEN [station |-> station, assigned |-> assigned]
               ELSE fillStationAnyTools(c, p, seed, StationAddTask(station, best),
                                        assigned \cup {best.id})

RECURSIVE fillStation(_, _, _, _, _)

\* lines 321-366: the while (true) loop of one station
fillStation(c, p, seed, station, assigned) ==
    LET available == getAvailableTasks(c, assigned)
    IN IF Len(available) = 0 THEN [station |-> station, assigned |-> assigned]
       ELSE LET best == bestOf(c, p, seed, station, available)
            IN IF \/ station.totalTime + best.processingTime > p.maxTime
                  \/ /\ ~MapHas(station.tools, best.toolType)
                     /\ Cardinality(DOMAIN station.tools) >= p.toolVariety
               THEN [station |-> station, assigned |-> assigned]
               ELSE fillStation(c, p, seed, StationAddTask(station, best),
                                assigned \cup {best.id})

RECURSIVE fillStations(_, _, _, _, _, _)

\* lines 316-371: the for loop over the stations, from index s
fillStations(c, p, seed, s, solution, assigned) ==
    IF ~(s < p.targetStations /\ Cardinality(assigned) < Len(c.tasks))
    THEN [solution |-> solution, assigned |-> assigned]
    ELSE LET filled == fillStation(c, p, seed, NewStation(s + 1), assigned)
         IN fillStations(c, p, seed, s + 1,
                IF Len(filled.station.tasks) > 0
                THEN addStation(solution, filled.station) ELSE solution,
                filled.assigned)

\* main.js generateSolution: null when a task is left, a station is longer
\* than maxTime, or the standard deviation of the station times is above
\* maxStdev (variance > maxStdev^2); for a config with a task
mainGenerateSolution(c, p, seed) ==
    LET built == fillStations(c, p, seed, 0, NewSolution(<<>>), {})
        stations == built.solution.stations
        n == Len(stations)
    IN IF Cardinality(built.assigned) # Len(c.tasks) THEN [isNull |-> TRUE]
       ELSE IF \E k \in 1..n : stations[k].totalTime > p.maxTime THEN [isNull |-> TRUE]
       ELSE IF n * SumSquares(stations) - SumTotalTime(stations) * SumTotalTime(stations)
                   > p.maxStdev * p.maxStdev * n * n
            THEN [isNull |-> TRUE]
       ELSE [isNull |-> FALSE, solution |-> built.solution]

RECURSIVE sortByWeighted(_)

\* paretoFront.sort((a, b) => b.scores.weighted - a.scores.weighted): stable
sortByWeighted(list) ==
    IF Len(list) = 0 THEN <<>>
    ELSE LET i == CHOOSE i \in 1..Len(list) :
                     /\ \A j \in 1..Len(list) :
                           ~Less(list[i].scores.weighted, list[j].scores.weighted)
                     /\ \A j \in 1..(i - 1) :
                           Less(list[j].scores.weighted, list[i].scores.weighted)
         IN <<list[i]>> \o sortByWeighted(SubSeq(list, 1, i - 1) \o SubSeq(list, i + 1, Len(list)))

\* the configs of the result page: T1(10,M1), T2(5,M1), T3(5,M2) with
\* addTask's tool limits, with T1 before T2 and one M1 tool per station, and
\* with no M1 tool allowed
FindConfigs ==
    {BuildConfig(<<Task("T1", 10, "M1"), Task("T2", 5, "M1"), Task("T3", 5, "M2")>>,
                 in.edges, DefaultTaktTime, in.limits) :
        in \in {[edges |-> <<>>, limits |-> EmptyMap],
                [edges |-> <<(<<"T1", "T2">>)>>, limits |-> [M1 |-> 1]],
                [edges |-> <<>>, limits |-> [M1 |-> 0]]}}

\* the fields of the page: the three weights, maxStdev, maxTime, toolVariety
FindFields ==
    {[wE |-> 9, wS |-> 6, wEnv |-> 8, maxStdev |-> 24, maxTime |-> 15, toolVariety |-> 3],
     [wE |-> 1, wS |-> 1, wEnv |-> 1, maxStdev |-> 2, maxTime |-> 15, toolVariety |-> 1]}

\* the loop header: the next iter, or the next numStations
Advance(r) ==
    IF r.iter + 1 < ItersPerNumStations THEN [r EXCEPT !.iter = r.iter + 1]
    ELSE [r EXCEPT !.iter = 0, !.numStations = r.numStations + 1]

\* lines 221-243: the weights are normalized and stored with the takt time
FindStart ==
    \E f \in FindFields :
        /\ run.pc = "idle"
        /\ config' = [config EXCEPT
              !.weights = [economic |-> Rat(f.wE, f.wE + f.wS + f.wEnv),
                           social |-> Rat(f.wS, f.wE + f.wS + f.wEnv),
                           environmental |-> Rat(f.wEnv, f.wE + f.wS + f.wEnv)],
              !.taktTime = f.maxTime]
        /\ run' = [pc |-> "find", numStations |-> FirstNumStations, iter |-> 0,
                   seen |-> {}, allSolutions |-> <<>>, maxStdev |-> f.maxStdev,
                   maxTime |-> f.maxTime, toolVariety |-> f.toolVariety]
        /\ lastOp' = Op("findParetoSolutions", "", "")
        /\ UNCHANGED <<removed, nops, gen, sol, ret>>

\* line 247: generateSolution(numStations, iter, maxStdev, maxTime, toolVariety)
FindGenerate ==
    /\ run.pc = "find"
    /\ run.numStations <= LastNumStations
    /\ gen.pc = "idle"
    /\ LET g == mainGenerateSolution(config,
                    [targetStations |-> run.numStations, maxStdev |-> run.maxStdev,
                     maxTime |-> run.maxTime, toolVariety |-> run.toolVariety], run.iter)
       IN /\ gen' = [pc |-> "generated", isNull |-> g.isNull]
          /\ sol' = IF g.isNull THEN sol ELSE g.solution
    /\ lastOp' = Op("generateSolution", "", "")
    /\ UNCHANGED <<config, removed, nops, run, ret>>

\* line 248: generateSolution returned null
FindNull ==
    /\ gen.pc = "generated"
    /\ gen.isNull
    /\ gen' = IdleGen
    /\ run' = Advance(run)
    /\ lastOp' = Op("null", "", "")
    /\ UNCHANGED <<config, removed, nops, sol, ret>>

\* lines 249-250: the hash of the candidate was seen
FindRepeat ==
    /\ gen.pc = "generated"
    /\ ~gen.isNull
    /\ getHash(sol) \in run.seen
    /\ gen' = IdleGen
    /\ run' = Advance(run)
    /\ lastOp' = Op("repeat", "", "")
    /\ UNCHANGED <<config, removed, nops, sol, ret>>

\* lines 250-252: a new hash, and validateSolution finds the candidate invalid
FindInvalid ==
    /\ gen.pc = "generated"
    /\ ~gen.isNull
    /\ getHash(sol) \notin run.seen
    /\ LET validated == validateSolution(sol, config)
       IN /\ ~validated.isValid
          /\ sol' = validated
    /\ gen' = IdleGen
    /\ run' = [Advance(run) EXCEPT !.seen = run.seen \cup {getHash(sol)}]
    /\ lastOp' = Op("invalid", "", "")
    /\ UNCHANGED <<config, removed, nops, ret>>

\* lines 250-255: a new hash and a valid candidate, which is scored and pushed
FindKeep ==
    /\ gen.pc = "generated"
    /\ ~gen.isNull
    /\ getHash(sol) \notin run.seen
    /\ LET validated == validateSolution(sol, config)
       IN /\ validated.isValid
          /\ sol' = calculateAllScores(validated, config)
    /\ gen' = IdleGen
    /\ run' = [Advance(run) EXCEPT !.seen = run.seen \cup {getHash(sol)},
                                   !.allSolutions = Append(run.allSolutions, sol')]
    /\ lastOp' = Op("keep", "", "")
    /\ UNCHANGED <<config, removed, nops, ret>>

\* lines 261-266: no valid solution was found
FindNone ==
    /\ run.pc = "find"
    /\ run.numStations > LastNumStations
    /\ Len(run.allSolutions) = 0
    /\ run' = [run EXCEPT !.pc = "returned"]
    /\ ret' = [kind |-> "toast"]
    /\ lastOp' = Op("return", "findParetoSolutions", "")
    /\ UNCHANGED <<config, removed, nops, gen, sol>>

\* lines 268-275: the Pareto front, sorted by weighted score
FindFront ==
    /\ run.pc = "find"
    /\ run.numStations > LastNumStations
    /\ Len(run.allSolutions) > 0
    /\ run' = [run EXCEPT !.pc = "returned"]
    /\ ret' = [kind |-> "front",
               front |-> sortByWeighted(findParetoFront(run.allSolutions))]
    /\ lastOp' = Op("return", "findParetoSolutions", "")
    /\ UNCHANGED <<config, removed, nops, gen, sol>>

NextFind ==
    \/ FindStart
    \/ FindGenerate
    \/ FindNull
    \/ FindRepeat
    \/ FindInvalid
    \/ FindKeep
    \/ FindNone
    \/ FindFront

InitFind ==
    /\ config \in FindConfigs
    /\ removed = {}
    /\ nops = 0
    /\ lastOp = Op("new", "", "")
    /\ gen = IdleGen
    /\ run = IdleRun
    /\ sol = NewSolution(<<>>)
    /\ ret = NoRet

SpecFind == InitFind /\ [][NextFind]_vars

-----------------------------------------------------------------------------
(* The peer review, peer-review.js: importSolutionsFromJSON and           *)
(* reviewSolutions(solutions, config, false)                               *)

\* the most solutions of an imported file
MaxImported == 2

\* the stations of the imported solutions
JsonStations ==
    {<<[id |-> 1, tasks |-> <<"T1">>], [id |-> 2, tasks |-> <<"T2", "T3">>]>>,
     <<[id |-> 1, tasks |-> <<"T2", "T3">>], [id |-> 2, tasks |-> <<"T1">>]>>,
     <<[id |-> 1, tasks |-> <<"T1", "T2">>], [id |-> 2, tasks |-> <<"T3">>]>>,
     <<[id |-> 1, tasks |-> <<"T1", "T2", "T3">>]>>}

\* the entries of json.solutions: with or without scores and isValid
ImportedJson ==
    {[stations |-> st, hasScores |-> hs,
      scores |-> [economic |-> Number(1, 1), social |-> Number(1, 1),
                  environmental |-> Number(1, 1), weighted |-> Number(1, 1)],
      hasIsValid |-> hv, isValid |-> v] :
        st \in JsonStations, hs \in BOOLEAN,
        hv \in BOOLEAN, v \in BOOLEAN}

\* lines 62-80: the ReviewResult of every solution after step 1
feasibilityResults(solutions, c) ==
    [k \in 1..Len(solutions) |->
        [isValid |-> checkFeasibility(solutions[k], c).isValid,
         errors |-> checkFeasibility(solutions[k], c).errors,
         isDominated |-> FALSE, dominatedBy |-> 0]]

\* lines 71-74: calculateAllScores on the solutions that passed
scoreFeasible(solutions, c) ==
    [k \in 1..Len(solutions) |->
        IF checkFeasibility(solutions[k], c).isValid
        THEN calculateAllScores(solutions[k], c) ELSE solutions[k]]

\* lines 96-101: the place in paretoFront of the first solution that
\* dominates the given one, 0 for null
firstDominating(paretoFront, solution) ==
    IF \E q \in 1..Len(paretoFront) : dominates(paretoFront[q], solution)
    THEN CHOOSE q \in 1..Len(paretoFront) :
            /\ dominates(paretoFront[q], solution)
            /\ \A o \in 1..(q - 1) : ~dominates(paretoFront[o], solution)
    ELSE 0

\* line 85: the hashes of the solutions of paretoFront
paretoSetOf(paretoFront) == {getHash(paretoFront[q]) : q \in 1..Len(paretoFront)}

\* lines 87-103: the ReviewResults after step 2
markDominated(results, solutions, paretoFront) ==
    [k \in 1..Len(solutions) |->
        IF ~results[k].isValid \/ getHash(solutions[k]) \in paretoSetOf(paretoFront)
        THEN results[k]
        ELSE [results[k] EXCEPT !.isDominated = TRUE,
                                !.dominatedBy = firstDominating(paretoFront, solutions[k])]]

\* the counters of the report
reportOf(reviewed, solutions, paretoFront) ==
    [kind |-> "report",
     paretoFront |-> paretoFront,
     reviewedSolutions |-> reviewed,
     validCount |-> Cardinality({k \in 1..Len(reviewed) : reviewed[k].isValid}),
     invalidCount |-> Cardinality({k \in 1..Len(reviewed) : ~reviewed[k].isValid}),
     dominatedCount |-> Cardinality({k \in 1..Len(reviewed) : reviewed[k].isDominated}),
     paretoFrontCount |->
         Cardinality({k \in 1..Len(reviewed) :
                         /\ reviewed[k].isValid
                         /\ getHash(solutions[k]) \in paretoSetOf(paretoFront)})]

\* importSolutionsFromJSON(json, config)
ImportSolutions ==
    \E n \in 1..MaxImported : \E json \in [1..n -> ImportedJson] :
        /\ run.pc = "idle"
        /\ run' = [pc |-> "imported",
                   solutions |-> [k \in 1..n |-> fromJSON(json[k], config)]]
        /\ lastOp' = Op("importSolutionsFromJSON", "", "")
        /\ UNCHANGED <<config, removed, nops, gen, sol, ret>>

\* reviewSolutions lines 60-80, step 1: every solution is checked and the
\* ones that pass are scored
ReviewValidate ==
    /\ run.pc = "imported"
    /\ run' = [pc |-> "validated",
               solutions |-> scoreFeasible(run.solutions, config),
               results |-> feasibilityResults(run.solutions, config)]
    /\ lastOp' = Op("reviewSolutions", "", "")
    /\ UNCHANGED <<config, removed, nops, gen, sol, ret>>

\* reviewSolutions lines 82-105 and 164, step 2 and the return without
\* step 3: the Pareto front of the solutions whose own isValid holds, and
\* the report
ReviewPareto ==
    /\ run.pc = "validated"
    /\ run' = [run EXCEPT !.pc = "reviewed"]
    /\ ret' = reportOf(
                  markDominated(run.results, run.solutions,
                                findParetoFront(ValidOnes(run.solutions))),
                  run.solutions, findParetoFront(ValidOnes(run.solutions)))
    /\ lastOp' = Op("return", "reviewSolutions", "")
    /\ UNCHANGED <<config, removed, nops, gen, sol>>

-----------------------------------------------------------------------------
(* The pipelines: generateAllSolutions, findParetoSolutions or a review of *)
(* an imported file, on one config                                         *)

\* the configs of the result page and one in which T2 precedes itself
PipelineConfigs ==
    FindConfigs
    \cup {BuildConfig(<<Task("T1", 10, "M1"), Task("T2", 5, "M1"), Task("T3", 5, "M2")>>,
                      <<(<<"T1", "T2">>), (<<"T2", "T2">>)>>, DefaultTaktTime, EmptyMap)}

InitPipelines ==
    /\ config \in PipelineConfigs
    /\ removed = {}
    /\ nops = 0
    /\ lastOp = Op("new", "", "")
    /\ gen = IdleGen
    /\ run = IdleRun
    /\ sol = NewSolution(<<>>)
    /\ ret = NoRet

NextPipelines ==
    \/ NextGen
    \/ NextFind
    \/ ImportSolutions
    \/ ReviewValidate
    \/ ReviewPareto

SpecPipelines == InitPipelines /\ [][NextPipelines]_vars

-----------------------------------------------------------------------------
(* Properties of the pipelines *)

\* the candidate passes the feasibility check
Feasible14(solution) == checkFeasibility(solution, config).isValid

\* C14 as stated: a candidate that fails the feasibility check is never a
\* member of a computed Pareto front, in findParetoSolutions and in
\* reviewSolutions, and a feasible reviewed solution is classified as
\* dominated only when a feasible reviewed solution dominates it.
C14_AsStated ==
    /\ ret.kind = "front" =>
          \A q \in 1..Len(ret.front) : Feasible14(ret.front[q])
    /\ ret.kind = "report" =>
          /\ \A q \in 1..Len(ret.paretoFront) : Feasible14(ret.paretoFront[q])
          /\ \A k \in 1..Len(run.solutions) :
                ret.reviewedSolutions[k].isValid /\ ret.reviewedSolutions[k].isDominated =>
                    \E j \in 1..Len(run.solutions) :
                        /\ ret.reviewedSolutions[j].isValid
                        /\ dominates(run.solutions[j], run.solutions[k])

\* the accumulated populations: solutions of generateMultipleSolutions and
\* allSolutions of generateAllSolutions and of findParetoSolutions
Populations ==
    IF "allSolutions" \in DOMAIN run
    THEN {run.allSolutions}
         \cup (IF "solutions" \in DOMAIN run THEN {run.solutions} ELSE {})
    ELSE {}

\* a candidate as generateSolution returned it: not validated and not scored
AsGenerated(solution) == solution = NewSolution(solution.stations)

\* C16: at every point of generateMultipleSolutions, generateAllSolutions and
\* the findParetoSolutions loop no two solutions of a population have the
\* same hash, and a candidate with a hash already seen is left as generated:
\* it is neither validated nor scored, and the population stays as it was.
C16_NoRepeatedHash ==
    /\ \A list \in Populations :
          \A i \in 1..Len(list), j \in 1..Len(list) :
              i # j => getHash(list[i]) # getHash(list[j])
    /\ run.pc = "find" =>
          \A i \in 1..Len(run.allSolutions) : getHash(run.allSolutions[i]) \in run.seen
    /\ lastOp.op = "repeat" =>
          /\ AsGenerated(sol)
          /\ getHash(sol) \in run.seen
          /\ \A i \in 1..Len(run.allSolutions) : run.allSolutions[i] # sol

\* the findParetoSolutions loop has just discarded a candidate with the
\* hash of a solution of the population
C16_Witness ==
    /\ lastOp.op = "repeat"
    /\ \E i \in 1..Len(run.allSolutions) : getHash(run.allSolutions[i]) = getHash(sol)

-----------------------------------------------------------------------------
(* Serialization, main.js: toJSON and fromJSON of ProblemConfig and Solution *)

\* ProblemConfig.toJSON: the tasks, an entry {from, to} for every id of every
\* list of the precedence map, the takt time, the tool limits, the weights
configToJSON(c) ==
    [tasks |-> c.tasks,
     precedence |->
        Flatten([k \in 1..Len(KeysInOrder(c.precedence)) |->
            [i \in 1..Len(c.precedence[KeysInOrder(c.precedence)[k]]) |->
                <<c.precedence[KeysInOrder(c.precedence)[k]][i],
                  KeysInOrder(c.precedence)[k]>>]]),
     taktTime |-> c.taktTime,
     toolLimits |-> c.toolLimits,
     weights |-> c.weights]

\* new Task(t.id, t.processingTime, t.toolType, t.envScore || 1)
taskFromJSON(t) ==
    TaskWithEnv(t.id, t.processingTime, t.toolType,
                IF t.envScore = 0 THEN DefaultEnvScore ELSE t.envScore)

\* ProblemConfig.fromJSON
configFromJSON(json) ==
    [BuildConfig([i \in 1..Len(json.tasks) |-> taskFromJSON(json.tasks[i])],
                 json.precedence, json.taktTime, json.toolLimits)
        EXCEPT !.weights = json.weights]

\* Solution.toJSON: id, task ids and totalTime of every station, the scores
\* and isValid
solutionToJSON(solution) ==
    [stations |-> [k \in 1..Len(solution.stations) |->
                      [id |-> solution.stations[k].id,
                       tasks |-> getTaskIds(solution.stations[k]),
                       totalTime |-> solution.stations[k].totalTime]],
     hasScores |-> TRUE, scores |-> solution.scores,
     hasIsValid |-> TRUE, isValid |-> solution.isValid]

\* the configs that are saved and loaded: T1 with an envScore of 0, 1 or 10,
\* up to two precedence edges, the default or the result page's weights
RoundTripConfigs ==
    {[BuildConfig(<<TaskWithEnv("T1", 10, "M1", a), TaskWithEnv("T2", 5, "M1", 1),
                    TaskWithEnv("T3", 5, "M2", 1)>>, edges, takt, [M1 |-> 1])
        EXCEPT !.weights = w] :
        a \in EnvScores,
        edges \in {<<>>, <<(<<"T1", "T2">>)>>, <<(<<"T1", "T3">>), (<<"T1", "T2">>)>>,
                   <<(<<"T2", "T3">>), (<<"T1", "T3">>)>>},
        takt \in TaktTimes,
        w \in {DefaultWeights,
               [economic |-> Rat(9, 23), social |-> Rat(6, 23), environmental |-> Rat(8, 23)]}}

InitRoundTrip ==
    /\ config \in RoundTripConfigs
    /\ removed = {}
    /\ nops = 0
    /\ lastOp = Op("new", "", "")
    /\ gen = IdleGen
    /\ run = IdleRun
    /\ sol = NewSolution(<<>>)
    /\ ret = NoRet

\* ProblemConfig.fromJSON(config.toJSON())
ConfigRoundTrip ==
    /\ lastOp.op # "fromJSON"
    /\ ret' = [kind |-> "config", value |-> configFromJSON(configToJSON(config))]
    /\ lastOp' = Op("fromJSON", "ProblemConfig", "")
    /\ UNCHANGED <<config, removed, nops, gen, run, sol>>

\* Solution.fromJSON(sol.toJSON(), config.tasks)
SolutionRoundTrip ==
    /\ lastOp.op # "fromJSON"
    /\ ret' = [kind |-> "solution", value |-> fromJSON(solutionToJSON(sol), config)]
    /\ lastOp' = Op("fromJSON", "Solution", "")
    /\ UNCHANGED <<config, removed, nops, gen, run, sol>>

NextRoundTrip ==
    \/ SolAddStation
    \/ SolAddTask
    \/ ValidateBuilt
    \/ CalculateAllScores
    \/ ConfigRoundTrip
    \/ SolutionRoundTrip

SpecRoundTrip == InitRoundTrip /\ [][NextRoundTrip]_vars

-----------------------------------------------------------------------------
(* Properties of the serialization *)

\* the edges of an adjacency map: the pairs <<key, id>> with id in m[key]
EdgesOf(m) == UNION {{<<k, x>> : x \in Range(m[k])} : k \in DOMAIN m}

\* C15 as stated: ProblemConfig.fromJSON(c.toJSON()) has the tasks, the
\* precedence edges in both maps, the takt time, the tool limits and the
\* weights of c, and Solution.fromJSON(s.toJSON(), tasks) has the hash, the
\* task order of every station and the scores of s.
C15_AsStated ==
    /\ ret.kind = "config" =>
          /\ ret.value.tasks = config.tasks
          /\ EdgesOf(ret.value.precedence) = EdgesOf(config.precedence)
          /\ EdgesOf(ret.value.successors) = EdgesOf(config.successors)
          /\ ret.value.taktTime = config.taktTime
          /\ ret.value.toolLimits = config.toolLimits
          /\ ret.value.weights = config.weights
    /\ ret.kind = "solution" =>
          /\ getHash(ret.value) = getHash(sol)
          /\ StationIds(ret.value) = StationIds(sol)
          /\ ret.value.scores = sol.scores

-----------------------------------------------------------------------------
(* The balance session: a caller builds a Solution over a small config and *)
(* asks for its economic and social score                                  *)

\* the takt times of the balance session
BalanceTakts == {5, 10, 20}

\* a single task of 5, 10 or 20, two tasks of 20, or tasks of 10, 5 and 5
BalanceConfigs ==
    {BuildConfig(tasks, <<>>, takt, EmptyMap) :
        tasks \in {<<Task("T1", 5, "M1")>>, <<Task("T1", 10, "M1")>>,
                   <<Task("T1", 20, "M1")>>,
                   <<Task("T1", 20, "M1"), Task("T2", 20, "M2")>>,
                   <<Task("T1", 10, "M1"), Task("T2", 5, "M1"), Task("T3", 5, "M2")>>},
        takt \in BalanceTakts}

InitBalance ==
    /\ config \in BalanceConfigs
    /\ removed = {}
    /\ nops = 0
    /\ lastOp = Op("new", "", "")
    /\ gen = IdleGen
    /\ run = IdleRun
    /\ sol = NewSolution(<<>>)
    /\ ret = NoRet

\* calculateEconomicScore(sol, config) and calculateSocialScore(sol, config)
ScoreBuilt ==
    /\ Building
    /\ ret' = [kind |-> "scores",
               economic |-> calculateEconomicScore(sol, config),
               social |-> calculateSocialScore(sol, config)]
    /\ lastOp' = Op("scores", "", "")
    /\ UNCHANGED <<config, removed, nops, gen, run, sol>>

NextBalance ==
    \/ SolAddStation
    \/ SolAddTask
    \/ ScoreBuilt

SpecBalance == InitBalance /\ [][NextBalance]_vars

-----------------------------------------------------------------------------
(* Properties of the economic and the social score *)

\* the config has one task, as long as the takt time, on the only station
SingleTaskAtTakt ==
    /\ Len(config.tasks) = 1
    /\ config.tasks[1].processingTime = config.taktTime
    /\ StationIds(sol) = <<(<<config.tasks[1].id>>)>>

\* C21: for a config with one task whose processingTime equals taktTime,
\* assigned to one station, calculateEconomicScore returns 1 and
\* calculateSocialScore returns 1.
C21_SingleTaskScoresOne ==
    ret.kind = "scores" /\ SingleTaskAtTakt =>
        /\ ret.economic = Number(1, 1)
        /\ ret.social = Number(1, 1)

C21_Witness == ret.kind = "scores" /\ SingleTaskAtTakt

\* all stations have the same totalTime
Balanced(solution) ==
    \A i \in 1..Len(solution.stations), j \in 1..Len(solution.stations) :
        solution.stations[i].totalTime = solution.stations[j].totalTime

\* C22: calculateSocialScore returns 1 for every solution whose stations all
\* have the same totalTime.
C22_BalancedSocialOne ==
    ret.kind = "scores" /\ Balanced(sol) => ret.social = Number(1, 1)

\* two stations of 20 and 20
C22_Witness ==
    /\ ret.kind = "scores"
    /\ Len(sol.stations) = 2
    /\ sol.stations[1].totalTime = 20
    /\ sol.stations[2].totalTime = 20

-----------------------------------------------------------------------------
(* The verdict of checkFeasibility *)

\* the place of the only occurrence of id in the stations read one after
\* the other, 0 when id is not placed
PlaceOf(solution, id) ==
    IF Occurrences(solution, id) = 0 THEN 0
    ELSE CHOOSE k \in 1..Placed(solution) : AssignedSequence(solution)[k] = id

\* every predecessor is in an earlier station than its task, or earlier in
\* the same station
PredecessorsFirst(solution, c) ==
    \A taskId \in DOMAIN c.precedence : \A predId \in Range(c.precedence[taskId]) :
        /\ PlaceOf(solution, predId) > 0
        /\ PlaceOf(solution, predId) < PlaceOf(solution, taskId)

\* C23 as stated: checkFeasibility returns valid exactly when every config
\* task occurs exactly once, every station is within the takt time and the
\* configured tool limits, and every predecessor comes before its task.
C23_AsStated ==
    ret.kind = "feasibility" =>
        (ret.isValid <=>
            /\ Complete(sol, config)
            /\ ~TaktViolated(sol, config)
            /\ ~ToolViolated(sol, config)
            /\ PredecessorsFirst(sol, config))


-----------------------------------------------------------------------------
(* The steps of the heuristic generateSolution *)

\* the available tasks that canAddTaskToStation admits to the current station
Admissible ==
    {t \in Range(getAvailableTasks(config, gen.assignedTasks)) :
        canAddTaskToStation(t, gen.currentStation, config, gen.assignedTasks)}

\* one pass of the for loop over the sorted available tasks
ScanStep == gen.pc = "while" /\ gen'.pc = "if"

\* the test of taskAssigned after the for loop
IfStep == gen.pc = "if" /\ gen'.pc = "while"

\* the scan has admitted the task t, the first admissible one of some order
\* that sortByHeuristic can return
AdmitsFirstOf(t) ==
    \E order \in sortByHeuristic(getAvailableTasks(config, gen.assignedTasks),
                                  config, gen.heuristic) :
       \E i \in 1..Len(order) :
          /\ order[i] = t
          /\ \A j \in 1..(i - 1) : order[j] \notin Admissible

NoEmptyStation(stations) == \A k \in 1..Len(stations) : Len(stations[k].tasks) > 0

\* C24: in the heuristic generateSolution every scan admits the first task of
\* the priority order that canAddTaskToStation accepts on the current station
\* (with largest-processing-time-first no admissible available task is longer
\* than the admitted one) and admits nothing only when no available task is
\* admissible; the current station is closed and a new one opened only after
\* such a scan; the closed stations and the stations of the returned Solution
\* all hold a task.
C24_FirstAdmissibleTask ==
    [][/\ ScanStep =>
            /\ gen'.stations = gen.stations
            /\ IF Admissible = {}
               THEN /\ ~gen'.taskAssigned
                    /\ gen'.currentStation = gen.currentStation
                    /\ gen'.assignedTasks = gen.assignedTasks
               ELSE /\ gen'.taskAssigned
                    /\ \E t \in Admissible :
                          /\ AdmitsFirstOf(t)
                          /\ gen'.currentStation.tasks = Append(gen.currentStation.tasks, t)
                          /\ gen'.assignedTasks = gen.assignedTasks \cup {t.id}
                          /\ gen.heuristic = "lpt" =>
                                \A u \in Admissible : u.processingTime <= t.processingTime
       /\ IfStep =>
            IF gen.taskAssigned
            THEN gen'.stations = gen.stations /\ gen'.currentStation = gen.currentStation
            ELSE /\ Admissible = {}
                 /\ gen'.currentStation.tasks = <<>>
                 /\ gen'.stations \in {gen.stations, Append(gen.stations, gen.currentStation)}
       /\ gen'.pc \in {"while", "if", "returned"} => NoEmptyStation(gen'.stations)
       /\ gen'.pc = "returned" => NoEmptyStation(sol'.stations) /\ sol'.stations = gen'.stations
      ]_vars

\* largest-processing-time-first has passed over a longer available task that
\* the current station cannot take and admitted a shorter one, after a station
\* was closed
C24_Witness ==
    /\ gen.pc = "if"
    /\ gen.heuristic = "lpt"
    /\ gen.taskAssigned
    /\ Len(gen.stations) > 0
    /\ Len(gen.currentStation.tasks) > 0
    /\ \E u \in Range(config.tasks) :
          /\ u.id \notin gen.assignedTasks
          /\ \A i \in 1..Len(GetList(config.precedence, u.id)) :
                GetList(config.precedence, u.id)[i] \in
                   gen.assignedTasks \ {gen.currentStation.tasks[Len(gen.currentStation.tasks)].id}
          /\ u.processingTime >
                gen.currentStation.tasks[Len(gen.currentStation.tasks)].processingTime


-----------------------------------------------------------------------------
(* Calls of the parameterized generateSolution of main.js *)

\* the seeds of the calls: 0 .. MaxSeed - 1
MaxSeed == 5

\* the configs of the calls: two task lists with every choice of at most
\* MaxEdges precedence edges, cycles included
ParamConfigs ==
    {BuildConfig(tasks, edges, DefaultTaktTime, EmptyMap) :
        tasks \in {<<Task("T1", 10, "M1"), Task("T2", 5, "M1"), Task("T3", 5, "M2")>>,
                   <<Task("T1", 5, "M1"), Task("T2", 10, "M2"), Task("T3", 10, "M2")>>},
        edges \in EdgeLists(TaskIds)}

\* the arguments targetStations, maxStdev, maxTime and toolVariety
ParamArgs ==
    [targetStations : 1..3, maxStdev : {0, 3, 24}, maxTime : {10, 15, 20},
     toolVariety : 0..2]

InitParam ==
    /\ config \in ParamConfigs
    /\ removed = {}
    /\ nops = 0
    /\ lastOp = Op("new", "", "")
    /\ gen = IdleGen
    /\ \E p \in ParamArgs : run = [pc |-> "args", p |-> p, seed |-> 0]
    /\ sol = NewSolution(<<>>)
    /\ ret = NoRet

\* generateSolution(targetStations, seed, maxStdev, maxTime, toolVariety) with
\* the next seed
ParamGenerate ==
    /\ run.pc = "args"
    /\ run.seed < MaxSeed
    /\ LET g == mainGenerateSolution(config, run.p, run.seed)
       IN /\ ret' = [kind |-> "generated", isNull |-> g.isNull, seed |-> run.seed]
          /\ sol' = IF g.isNull THEN NewSolution(<<>>) ELSE g.solution
    /\ run' = [run EXCEPT !.seed = run.seed + 1]
    /\ lastOp' = Op("generateSolution", "", "")
    /\ UNCHANGED <<config, removed, nops, gen>>

NextParam == ParamGenerate

SpecParam == InitParam /\ [][NextParam]_vars

\* the tool types of the tasks of a station
ToolsUsed(st) == {st.tasks[i].toolType : i \in 1..Len(st.tasks)}

\* C25: every Solution the parameterized generateSolution returns assigns
\* every config task exactly once, has at most targetStations stations, none
\* of them empty, has no station with a totalTime above maxTime or with more
\* than toolVariety tool types, and places every predecessor before its task.
C25_ReturnedSolution ==
    ret.kind = "generated" /\ ~ret.isNull =>
        /\ Complete(sol, config)
        /\ Len(AssignedSequence(sol)) = Len(config.tasks)
        /\ Len(sol.stations) <= run.p.targetStations
        /\ NoEmptyStation(sol.stations)
        /\ \A k \in 1..Len(sol.stations) :
              /\ sol.stations[k].totalTime <= run.p.maxTime
              /\ SumTimes(sol.stations[k].tasks) <= run.p.maxTime
              /\ Cardinality(ToolsUsed(sol.stations[k])) <= run.p.toolVariety
        /\ PredecessorsFirst(sol, config)

\* a returned Solution that uses all targetStations stations, with a station
\* as long as maxTime and one holding toolVariety tool types, for a config
\* with two precedence edges
C25_Witness ==
    /\ ret.kind = "generated"
    /\ ~ret.isNull
    /\ run.p.targetStations = 2
    /\ Len(sol.stations) = 2
    /\ \E k \in 1..2 : sol.stations[k].totalTime = run.p.maxTime
    /\ \E k \in 1..2 : /\ Cardinality(ToolsUsed(sol.stations[k])) = run.p.toolVariety
                        /\ Len(sol.stations[k].tasks) > run.p.toolVariety
    /\ Cardinality({id \in DOMAIN config.precedence : Len(config.precedence[id]) > 0}) = 2


-----------------------------------------------------------------------------
(* Positional weights (precedence.js) *)

RECURSIVE successorsLoop(_, _, _)

\* the while loop of getAllSuccessors over the queue
successorsLoop(c, queue, result) ==
    IF Len(queue) = 0 THEN result
    ELSE IF Head(queue) \in result THEN successorsLoop(c, Tail(queue), result)
         ELSE successorsLoop(c, Tail(queue) \o GetList(c.successors, Head(queue)),
                             result \cup {Head(queue)})

\* getAllSuccessors: the ids reached from taskId along successors
getAllSuccessors(c, taskId) == successorsLoop(c, GetList(c.successors, taskId), {})

\* The number of precedence edges of a config handed to getPositionalWeight.
MaxWeightEdges == 3

\* the configs: T1(10,M1), T2(5,M1), T3(20,M2) with every choice of at most
\* MaxWeightEdges precedence edges
WeightConfigs ==
    {BuildConfig(<<Task("T1", 10, "M1"), Task("T2", 5, "M1"), Task("T3", 20, "M2")>>,
                 SelectSeq(PairsFrom(1, 1), LAMBDA e : e \in S), DefaultTaktTime, EmptyMap) :
        S \in {E \in SUBSET (TaskIds \X TaskIds) : Cardinality(E) <= MaxWeightEdges}}

InitWeight ==
    /\ config \in WeightConfigs
    /\ removed = {}
    /\ nops = 0
    /\ lastOp = Op("new", "", "")
    /\ gen = IdleGen
    /\ run = IdleRun
    /\ sol = NewSolution(<<>>)
    /\ ret = NoRet

\* getPositionalWeight(config, taskId) with a new memo
GetPositionalWeight ==
    \E taskId \in TaskIds :
        /\ ret' = [kind |-> "weight", taskId |-> taskId,
                   ok |-> getPositionalWeight(config, taskId, {}).ok,
                   weight |-> getPositionalWeight(config, taskId, {}).weight]
        /\ lastOp' = Op("getPositionalWeight", taskId, "")
        /\ UNCHANGED <<config, removed, nops, gen, run, sol>>

\* getAllSuccessors(config, taskId)
GetAllSuccessors ==
    \E taskId \in TaskIds :
        /\ ret' = [kind |-> "successors", taskId |-> taskId,
                   ids |-> getAllSuccessors(config, taskId)]
        /\ lastOp' = Op("getAllSuccessors", taskId, "")
        /\ UNCHANGED <<config, removed, nops, gen, run, sol>>

NextWeight == GetPositionalWeight \/ GetAllSuccessors

SpecWeight == InitWeight /\ [][NextWeight]_vars

\* the processing time of the task plus that of every distinct task that
\* transitively depends on it
TimeWithDependents(c, taskId) ==
    GetTask(c, taskId).processingTime
    + SumTimes(SelectSeq(c.tasks, LAMBDA t : t.id \in Descendants(c, taskId)))

\* C26: for an acyclic config getPositionalWeight(config, t) is t's
\* processingTime plus the processingTimes of the distinct tasks that
\* transitively depend on t, each counted once.
C26_AsStated ==
    ret.kind = "weight" /\ Acyclic(config) =>
        ret.ok /\ ret.weight = TimeWithDependents(config, ret.taskId)


-----------------------------------------------------------------------------
(* Station and Solution objects (main.js): a station object refers to its   *)
(* tasks array and to its tools Map, a solution to its station objects, so  *)
(* that two objects can share an array, a Map or a station.  run holds the  *)
(* objects: arrays, maps, stations and solutions are indexed by reference;   *)
(* madeBy and origin record how each station object was made, target the    *)
(* station of the last call.                                                *)

\* The number of Station objects.
MaxStationObjects == 3

\* The number of tasks of one Station object.
MaxStationTasks == 2

\* The number of Solution objects.
MaxSolutionObjects == 2

\* The number of calls on the objects.
MaxObjectCalls == 6

NoObjects ==
    [pc |-> "objects", arrays |-> <<>>, maps |-> <<>>, stations |-> <<>>,
     solutions |-> <<>>, madeBy |-> <<>>, origin |-> <<>>, target |-> 0]

\* new Station(id)
allocStation(h, id, madeBy, origin) ==
    [h EXCEPT !.arrays = Append(@, <<>>),
              !.maps = Append(@, EmptyMap),
              !.stations = Append(@, [id |-> id, tasks |-> Len(h.arrays) + 1,
                                      totalTime |-> 0, tools |-> Len(h.maps) + 1]),
              !.madeBy = Append(@, madeBy),
              !.origin = Append(@, origin)]

\* Station.addTask on the station object s
objAddTask(h, s, task) ==
    [h EXCEPT !.arrays[h.stations[s].tasks] = Append(@, task),
              !.stations[s].totalTime = @ + task.processingTime,
              !.maps[h.stations[s].tools] =
                  MapSet(@, task.toolType,
                         (IF MapHas(@, task.toolType) THEN @[task.toolType] ELSE 0) + 1)]

\* A Station.clone that hands its own tasks array to the clone.
objCloneSharingTasks(h, s, madeBy) ==
    [h EXCEPT !.maps = Append(@, h.maps[h.stations[s].tools]),
              !.stations = Append(@, [id |-> h.stations[s].id,
                                      tasks |-> h.stations[s].tasks,
                                      totalTime |-> h.stations[s].totalTime,
                                      tools |-> Len(h.maps) + 1]),
              !.madeBy = Append(@, madeBy),
              !.origin = Append(@, s)]

\* Station.clone of the station object s: a new array with the same tasks,
\* the same totalTime, a new Map with the same entries
objClone(h, s, madeBy) ==
    [h EXCEPT !.arrays = Append(@, h.arrays[h.stations[s].tasks]),
              !.maps = Append(@, h.maps[h.stations[s].tools]),
              !.stations = Append(@, [id |-> h.stations[s].id,
                                      tasks |-> Len(h.arrays) + 1,
                                      totalTime |-> h.stations[s].totalTime,
                                      tools |-> Len(h.maps) + 1]),
              !.madeBy = Append(@, madeBy),
              !.origin = Append(@, s)]

RECURSIVE objCloneAll(_, _, _)

\* this.stations.map(s => s.clone()), from index i
objCloneAll(h, refs, i) ==
    IF i > Len(refs) THEN h
    ELSE objCloneAll(objClone(h, refs[i], "Solution.clone"), refs, i + 1)

RECURSIVE objAddKnown(_, _, _, _, _)

\* sData.tasks.forEach: the tasks that taskMap knows are added, from index i
objAddKnown(h, s, ids, i, c) ==
    IF i > Len(ids) THEN h
    ELSE objAddKnown(IF HasTask(c, ids[i]) THEN objAddTask(h, s, GetTask(c, ids[i])) ELSE h,
                     s, ids, i + 1, c)

RECURSIVE objFromJSON(_, _, _, _)

\* json.stations.map(...) of Solution.fromJSON, from index i
objFromJSON(h, stations, i, c) ==
    IF i > Len(stations) THEN h
    ELSE objFromJSON(objAddKnown(allocStation(h, stations[i].id, "fromJSON", 0),
                                 Len(h.stations) + 1, stations[i].tasks, 1, c),
                     stations, i + 1, c)

\* the tasks, totalTime and tools of the station object s
StationView(h, s) ==
    [tasks |-> h.arrays[h.stations[s].tasks],
     totalTime |-> h.stations[s].totalTime,
     tools |-> h.maps[h.stations[s].tools]]

\* the taskMap of the calls: T1(10,M1), T2(5,M1), with or without T3(5,M2)
ObjectConfigs ==
    {BuildConfig(tasks, <<>>, DefaultTaktTime, EmptyMap) :
        tasks \in {<<Task("T1", 10, "M1"), Task("T2", 5, "M1"), Task("T3", 5, "M2")>>,
                   <<Task("T1", 10, "M1"), Task("T2", 5, "M1")>>}}

InitObjects ==
    /\ config \in ObjectConfigs
    /\ removed = {}
    /\ nops = 0
    /\ lastOp = Op("new", "", "")
    /\ gen = IdleGen
    /\ run = NoObjects
    /\ sol = NewSolution(<<>>)
    /\ ret = NoRet

\* new Station(id)
ObjNewStation ==
    /\ Len(run.stations) < MaxStationObjects
    /\ run' = [allocStation(run, Len(run.stations) + 1, "Station", 0)
                 EXCEPT !.target = Len(run.stations) + 1]
    /\ nops < MaxObjectCalls
    /\ nops' = nops + 1
    /\ lastOp' = Op("Station", "", "")
    /\ UNCHANGED <<config, removed, gen, sol, ret>>

\* station.addTask(task)
ObjAddTask ==
    \E s \in 1..Len(run.stations), i \in 1..Len(config.tasks) :
        /\ Len(run.arrays[run.stations[s].tasks]) < MaxStationTasks
        /\ run' = [objAddTask(run, s, config.tasks[i]) EXCEPT !.target = s]
        /\ nops < MaxObjectCalls
        /\ nops' = nops + 1
        /\ lastOp' = Op("Station.addTask", config.tasks[i].id, "")
        /\ UNCHANGED <<config, removed, gen, sol, ret>>

\* station.clone()
ObjStationClone ==
    \E s \in 1..Len(run.stations) :
        /\ Len(run.stations) < MaxStationObjects
        /\ run' = [objClone(run, s, "Station.clone") EXCEPT !.target = Len(run.stations) + 1]
        /\ nops < MaxObjectCalls
        /\ nops' = nops + 1
        /\ lastOp' = Op("Station.clone", "", "")
        /\ UNCHANGED <<config, removed, gen, sol, ret>>

\* new Solution()
ObjNewSolution ==
    /\ Len(run.solutions) < MaxSolutionObjects
    /\ run' = [run EXCEPT !.solutions = Append(@, <<>>), !.target = 0]
    /\ nops < MaxObjectCalls
    /\ nops' = nops + 1
    /\ lastOp' = Op("Solution", "", "")
    /\ UNCHANGED <<config, removed, gen, sol, ret>>

\* solution.addStation(station)
ObjAddStation ==
    \E k \in 1..Len(run.solutions), s \in 1..Len(run.stations) :
        /\ Len(run.solutions[k]) < 2
        /\ ~Includes(run.solutions[k], s)
        /\ run' = [run EXCEPT !.solutions[k] = Append(@, s), !.target = 0]
        /\ nops < MaxObjectCalls
        /\ nops' = nops + 1
        /\ lastOp' = Op("addStation", "", "")
        /\ UNCHANGED <<config, removed, gen, sol, ret>>

\* solution.clone(): every station is cloned into a new Solution
ObjSolutionClone ==
    \E k \in 1..Len(run.solutions) :
        /\ Len(run.solutions) < MaxSolutionObjects
        /\ Len(run.solutions[k]) > 0
        /\ Len(run.stations) + Len(run.solutions[k]) <= MaxStationObjects
        /\ run' = [objCloneAll(run, run.solutions[k], 1) EXCEPT
                      !.solutions = Append(@, [i \in 1..Len(run.solutions[k]) |->
                                                  Len(run.stations) + i]),
                      !.target = 0]
        /\ nops < MaxObjectCalls
        /\ nops' = nops + 1
        /\ lastOp' = Op("Solution.clone", "", "")
        /\ UNCHANGED <<config, removed, gen, sol, ret>>

\* Solution.fromJSON(json, config.tasks)
ObjSolutionFromJSON ==
    \E stations \in JsonStations :
        /\ Len(run.solutions) < MaxSolutionObjects
        /\ Len(run.stations) + Len(stations) <= MaxStationObjects
        /\ run' = [objFromJSON(run, stations, 1, config) EXCEPT
                      !.solutions = Append(@, [i \in 1..Len(stations) |->
                                                  Len(run.stations) + i]),
                      !.target = 0]
        /\ nops < MaxObjectCalls
        /\ nops' = nops + 1
        /\ lastOp' = Op("fromJSON", "Solution", "")
        /\ UNCHANGED <<config, removed, gen, sol, ret>>

NextObjects ==
    \/ ObjNewStation
    \/ ObjAddTask
    \/ ObjStationClone
    \/ ObjNewSolution
    \/ ObjAddStation
    \/ ObjSolutionClone
    \/ ObjSolutionFromJSON

SpecObjects == InitObjects /\ [][NextObjects]_vars

\* totalTime is the sum of the processing times of the tasks and tools
\* counts the tasks of every tool type
ConsistentStation(view) ==
    /\ view.totalTime = SumTimes(view.tasks)
    /\ DOMAIN view.tools = {view.tasks[i].toolType : i \in 1..Len(view.tasks)}
    /\ \A tool \in DOMAIN view.tools :
          view.tools[tool] = Cardinality({i \in 1..Len(view.tasks) :
                                            view.tasks[i].toolType = tool})

\* C27: every Station made by new Station, Station.addTask, Station.clone,
\* Solution.clone and Solution.fromJSON has a totalTime equal to the sum of
\* the processing times of its tasks and a tools Map that counts its tasks
\* per tool type; Station.addTask on one station, a clone included, leaves
\* the tasks, totalTime and tools of every other station as they were.
C27_StationConsistency ==
    /\ [](\A s \in 1..Len(run.stations) : ConsistentStation(StationView(run, s)))
    /\ [][lastOp'.op = "Station.addTask" =>
            \A s \in 1..Len(run.stations) :
                s # run'.target => StationView(run', s) = StationView(run, s)]_vars

\* a task was added to a clone of a station that holds a task, next to a
\* station that Solution.fromJSON or Solution.clone made with a task
C27_Witness ==
    /\ lastOp.op = "Station.addTask"
    /\ run.target > 0
    /\ run.madeBy[run.target] = "Station.clone"
    /\ Len(StationView(run, run.origin[run.target]).tasks) > 0
    /\ Len(StationView(run, run.target).tasks) >
          Len(StationView(run, run.origin[run.target]).tasks)
    /\ \E s \in 1..Len(run.stations) :
          /\ run.madeBy[s] \in {"fromJSON", "Solution.clone"}
          /\ Len(StationView(run, s).tasks) > 0


-----------------------------------------------------------------------------
(* The graph editor (graph-editor.js) and the importGraph loader (main.js) *)
(* work on the config of the page.                                         *)

\* The number of editor and loader calls on the config.
MaxEditorOps == 5

\* addTaskAt: the id is T<size + 1>; the task object has no envScore (0 - 1
\* stands for the missing property) and config.addTask is not called, so no
\* precedence, successors or toolLimits entry is made
editorAddTaskAt(c, processingTime, toolType) ==
    [c EXCEPT !.tasks = TasksSet(c.tasks,
                  [id |-> IdOrder[Len(c.tasks) + 1], processingTime |-> processingTime,
                   toolType |-> toolType, envScore |-> 0 - 1])]

\* addEdge: from joins precedence[to] unless it is there; successors is not
\* touched
editorAddEdge(c, from, to) ==
    IF Includes(GetList(c.precedence, to), from) THEN c
    ELSE [c EXCEPT !.precedence = MapSet(c.precedence, to,
                                         Append(GetList(c.precedence, to), from))]

\* froms.splice(froms.indexOf(id), 1): the first occurrence of id is removed
SpliceFirst(froms, id) ==
    IF ~Includes(froms, id) THEN froms
    ELSE LET idx == CHOOSE i \in 1..Len(froms) :
                       froms[i] = id /\ \A j \in 1..(i - 1) : froms[j] # id
         IN SubSeq(froms, 1, idx - 1) \o SubSeq(froms, idx + 1, Len(froms))

\* deleteTask: the task and its precedence entry are deleted and the id is
\* removed from the other precedence lists; successors is not touched
editorDeleteTask(c, id) ==
    [c EXCEPT !.tasks = SelectSeq(c.tasks, LAMBDA t : t.id # id),
              !.precedence = [k \in (DOMAIN c.precedence) \ {id} |->
                                 SpliceFirst(c.precedence[k], id)]]

\* clear: tasks and precedence are emptied; successors is not touched
editorClear(c) == [c EXCEPT !.tasks = <<>>, !.precedence = EmptyMap]

\* importGraph: tasks and precedence are emptied, then every task of the
\* file is added with config.addTask and every pair with config.addPrecedence
importGraph(c, data) ==
    addPrecedences(addTasks([c EXCEPT !.tasks = <<>>, !.precedence = EmptyMap],
                            data.tasks),
                   data.precedence)

\* the files handed to importGraph
GraphFiles ==
    {[tasks |-> <<Task("T1", 10, "M1"), Task("T2", 10, "M2")>>,
      precedence |-> <<(<<"T1", "T2">>)>>],
     [tasks |-> <<Task("T1", 10, "M1"), Task("T2", 10, "M1"), Task("T3", 20, "M2")>>,
      precedence |-> <<>>]}

EditorAddTaskAt ==
    \E pt \in Times, tool \in ToolTypes :
        /\ nops < MaxEditorOps
        /\ Len(config.tasks) < Len(IdOrder)
        /\ config' = editorAddTaskAt(config, pt, tool)
        /\ nops' = nops + 1
        /\ lastOp' = Op("addTaskAt", IdOrder[Len(config.tasks) + 1], "")
        /\ UNCHANGED <<removed, gen, run, sol, ret>>

EditorAddEdge ==
    \E from \in TaskIds, to \in TaskIds :
        /\ nops < MaxEditorOps
        /\ HasTask(config, from)
        /\ HasTask(config, to)
        /\ from # to
        /\ config' = editorAddEdge(config, from, to)
        /\ nops' = nops + 1
        /\ lastOp' = Op("addEdge", from, to)
        /\ UNCHANGED <<removed, gen, run, sol, ret>>

EditorDeleteTask ==
    \E id \in TaskIds :
        /\ nops < MaxEditorOps
        /\ HasTask(config, id)
        /\ config' = editorDeleteTask(config, id)
        /\ nops' = nops + 1
        /\ lastOp' = Op("deleteTask", id, "")
        /\ UNCHANGED <<removed, gen, run, sol, ret>>

EditorClear ==
    /\ nops < MaxEditorOps
    /\ config' = editorClear(config)
    /\ nops' = nops + 1
    /\ lastOp' = Op("clear", "", "")
    /\ UNCHANGED <<removed, gen, run, sol, ret>>

ImportGraph ==
    \E data \in GraphFiles :
        /\ nops < MaxEditorOps
        /\ config' = importGraph(config, data)
        /\ nops' = nops + 1
        /\ lastOp' = Op("importGraph", "", "")
        /\ UNCHANGED <<removed, gen, run, sol, ret>>

NextEditor ==
    \/ EditorAddTaskAt
    \/ EditorAddEdge
    \/ EditorDeleteTask
    \/ EditorClear
    \/ ImportGraph

SpecEditor == Init /\ [][NextEditor]_vars

\* C28: after any sequence of addTaskAt, addEdge, deleteTask, clear and
\* importGraph calls b is in successors[a] exactly when a is in
\* precedence[b], and hasCycles finds every cycle of the predecessor map.
C28_AsStated ==
    /\ MutuallyConsistent(config)
    /\ ~Acyclic(config) => hasCycles(config)


-----------------------------------------------------------------------------
(* Completeness of the Pareto front *)

\* the entries of list at the positions of keep, in the order of list
SubList(list, keep) ==
    LET at == SelectSeq([k \in 1..Len(list) |-> k], LAMBDA k : k \in keep)
    IN [k \in 1..Len(at) |-> list[at[k]]]

\* C29: findParetoFront returns valid input solutions in their input order;
\* every valid input solution that is not returned is dominated by a returned
\* one; two valid solutions with the same three scores are both returned or
\* both left out.
C29_FrontComplete ==
    ret.kind = "front" =>
        LET valid == SelectSeq(run.solutions, LAMBDA s : s.isValid)
        IN \E keep \in SUBSET (1..Len(valid)) :
              /\ ret.front = SubList(valid, keep)
              /\ \A i \in (1..Len(valid)) \ keep :
                    \E f \in keep : BetterOrEqualAndBetter(valid[f], valid[i])
              /\ \A i \in 1..Len(valid), j \in 1..Len(valid) :
                    ScoreList(valid[i]) = ScoreList(valid[j]) => (i \in keep <=> j \in keep)

\* the front of three valid solutions holds the first and the last, which
\* have the same three scores; the second one is dominated and left out
C29_Witness ==
    /\ ret.kind = "front"
    /\ Len(run.solutions) = 3
    /\ \A o \in 1..3 : run.solutions[o].isValid
    /\ ScoreList(run.solutions[1]) = ScoreList(run.solutions[3])
    /\ ret.front = <<run.solutions[1], run.solutions[3]>>
    /\ BetterOrEqualAndBetter(run.solutions[1], run.solutions[2])


-----------------------------------------------------------------------------
(* The best solution of the Pareto front (pareto.js) *)

RECURSIVE reduceBest(_, _, _)

\* validSolutions.reduce((best, current) =>
\*     current.scores.weighted > best.scores.weighted ? current : best)
reduceBest(list, i, best) ==
    IF i > Len(list) THEN best
    ELSE reduceBest(list, i + 1,
                    IF Less(best.scores.weighted, list[i].scores.weighted)
                    THEN list[i] ELSE best)

\* A findBestSolution whose reduce always takes the current solution.
findBestSolutionKeepingLast(solutions) ==
    IF Len(solutions) = 0 THEN [isNull |-> TRUE]
    ELSE IF Len(ValidOnes(solutions)) = 0 THEN [isNull |-> TRUE]
    ELSE [isNull |-> FALSE,
          solution |-> ValidOnes(solutions)[Len(ValidOnes(solutions))]]

\* findBestSolution: null, or the first valid solution with the greatest
\* weighted score
findBestSolution(solutions) ==
    IF Len(solutions) = 0 THEN [isNull |-> TRUE]
    ELSE IF Len(ValidOnes(solutions)) = 0 THEN [isNull |-> TRUE]
    ELSE [isNull |-> FALSE,
          solution |-> reduceBest(ValidOnes(solutions), 2, ValidOnes(solutions)[1])]

findBestParetoSolution(solutions) == findBestSolution(findParetoFront(solutions))

\* the weights of the caller: the default, the normalized 9 : 6 : 8, and
\* triples with a zero weight
BestWeights ==
    {DefaultWeights,
     [economic |-> Rat(9, 23), social |-> Rat(6, 23), environmental |-> Rat(8, 23)],
     [economic |-> Rat(0, 1), social |-> Rat(1, 1), environmental |-> Rat(0, 1)],
     [economic |-> Rat(1, 2), social |-> Rat(0, 1), environmental |-> Rat(1, 2)]}

\* an entry is imported before the weighted scores are computed
ImportBeforeWeights == run.pc = "idle" /\ ImportScored

\* updateWeightedScores(solutions, weights)
WeightImported ==
    \E weights \in BestWeights :
        /\ ret = NoRet
        /\ run.pc = "idle"
        /\ Len(run.solutions) > 0
        /\ run' = [pc |-> "weighted", weights |-> weights,
                   solutions |-> updateWeightedScores(run.solutions, weights)]
        /\ lastOp' = Op("updateWeightedScores", "", "")
        /\ UNCHANGED <<config, removed, nops, gen, sol, ret>>

\* findBestParetoSolution(solutions)
FindBestParetoSolution ==
    /\ ret = NoRet
    /\ ret' = [kind |-> "best"] @@ findBestParetoSolution(run.solutions)
    /\ lastOp' = Op("findBestParetoSolution", "", "")
    /\ UNCHANGED <<config, removed, nops, gen, run, sol>>

NextBest ==
    \/ ImportBeforeWeights
    \/ WeightImported
    \/ FindBestParetoSolution

SpecBest == InitPareto /\ [][NextBest]_vars

\* C30: when the weighted scores of the list are the weighted sums of the
\* three scores with non-negative weights, findBestParetoSolution returns
\* null exactly when no solution of the list is valid, and otherwise a valid
\* solution of the list whose weighted score no valid solution exceeds.
C30_BestOfFrontIsBestOfValid ==
    (ret.kind = "best" /\ (run.pc = "weighted" \/ Len(run.solutions) = 0)) =>
        /\ ret.isNull <=> \A k \in 1..Len(run.solutions) : ~run.solutions[k].isValid
        /\ ~ret.isNull =>
              /\ ret.solution.isValid
              /\ \E k \in 1..Len(run.solutions) : run.solutions[k] = ret.solution
              /\ \A k \in 1..Len(run.solutions) :
                    run.solutions[k].isValid =>
                       ~Less(ret.solution.scores.weighted, run.solutions[k].scores.weighted)

\* of three valid weighted solutions one is dominated, and the returned one
\* is the second solution of a front of two, with the greater weighted score
C30_Witness ==
    /\ ret.kind = "best"
    /\ run.pc = "weighted"
    /\ ~ret.isNull
    /\ Len(run.solutions) = 3
    /\ \A k \in 1..3 : run.solutions[k].isValid
    /\ Len(findParetoFront(run.solutions)) = 2
    /\ ret.solution = findParetoFront(run.solutions)[2]
    /\ Less(findParetoFront(run.solutions)[1].scores.weighted, ret.solution.scores.weighted)

====
